---- MODULE Spec2Model ----
(***************************************************************************)
(* Model of opencascade-convert's core: the GLB container codec and the    *)
(* asset.extras patcher (src/core/glb-metadata.ts), the lenient GLB        *)
(* readers (src/core/glb-parse.ts) and the geometry statistics             *)
(* (src/core/glb-geometry.ts).                                             *)
(*                                                                         *)
(* Byte arrays are sequences of 0..255 (index 1 is byte offset 0).  JS     *)
(* strings are sequences of UTF-16 code units.  JS / JSON values are       *)
(* tagged records:                                                         *)
(*   [t |-> "undefined"]  [t |-> "null"]  [t |-> "bool", b |-> BOOLEAN]    *)
(*   [t |-> "num", n |-> Int]             [t |-> "str", s |-> units]       *)
(*   [t |-> "arr", a |-> <<values>>]                                       *)
(*   [t |-> "obj", o |-> <<[k |-> units, v |-> value], ...>>]              *)
(*   [t |-> "cycle"]    an object that contains itself                     *)
(* Object members are kept in insertion order, as the JS engine keeps      *)
(* string keys.  Numbers are integers and keys are never integer-like.     *)
(***************************************************************************)
EXTENDS Integers, Sequences, FiniteSets, TLC

VARIABLES
  pc,         \* which operation produced the current state
  input,      \* how the input buffer was written (layout, text, fault)
  glb,        \* input buffer of the codec / patcher
  parsed,     \* result of parseGlb(glb)
  rebuilt,    \* buildGlb(parsed.version, raw chunks of parsed)
  extras,     \* extras payload of the first injection
  injected,   \* result of injectAssetExtrasIntoGlb(glb, extras)
  extras2,    \* extras payload of the second injection
  injected2,  \* result of injectAssetExtrasIntoGlb(injected.glb, extras2)
  lenientJson, \* result of parseGlbJson(glb)
  lenientBin, \* result of parseGlbBin(glb)
  sdoc,       \* glTF JSON document the statistics input was built from
  sglb,       \* input buffer of summarizeGlbGeometry
  stats,      \* result of summarizeGlbGeometry(sglb)
  bdoc,       \* how the input of computeBoundsMeters was written
  bglb,       \* input buffer of computeBoundsMeters
  bounds,     \* result of computeBoundsMeters(bglb)
  options,    \* options of convertDocumentToGlbWithRetries
  attempt,    \* its loop counter
  triangulateUsed,     \* schedule of the current attempt (null before)
  kernelCalls,         \* converter.triangulate / writeBuffer calls so far
  outGlb,              \* glb of the last attempt measured (null before)
  meshStats,           \* its statistics (null before)
  conversionWarnings,  \* warnings pushed so far
  conversion, \* what convertDocumentToGlbWithRetries returned or threw
  policyIn,   \* arguments of getTriangulationForAttempt
  policyOut,  \* its result
  gltfNodes,  \* the nodes of the glTF document in mglb
  mglb,       \* the GLB given to the mapper
  nodeMapRaw, \* the raw node map of the kernel
  nodeIndex,  \* result of buildGltfNodeIndexByOcafEntry(mglb)
  mappedNodeMap, \* result of buildMappedNodeMap(nodeMapRaw, mglb)
  bomRaw,     \* the BOM of the kernel
  bomNodeMap, \* the mapped node map given to buildBomSummary
  bomSummary,  \* result of buildBomSummary(bomRaw, bomNodeMap)
  asmRoots,  \* the free shapes of the document, as the kernel answers about them
  asmOverrides,  \* the nameOverrides given to buildBom
  asmBom,  \* result of buildBom
  treeNodeMap,  \* the node map given to buildAssemblyTree
  tree,  \* result of buildAssemblyTree(treeNodeMap)
  cadOptions,  \* options of convertCadBufferToGlbWithMetadata
  cadNodeMap,  \* what converter.createNodeMap returns
  cadBom,  \* what converter.createBom returns
  cadResult,  \* what convertCadBufferToGlbWithMetadata returned or threw
  ocModule,  \* what the import of opencascade.js gives in this process
  cachedPromise,  \* the module variable cachedPromise, 0 for null, else the number of a load
  ocLoads,  \* the loadOpenCascade calls made, in order
  ocCalls,  \* the getOpenCascade calls made, in order
  initCalls  \* how often the init function of the module was invoked

glbVars ==
  <<input, glb, parsed, rebuilt, extras, injected, extras2, injected2,
    lenientJson, lenientBin>>
statsVars == <<sdoc, sglb, stats>>
boundsVars == <<bdoc, bglb, bounds>>
retryVars ==
  <<options, attempt, triangulateUsed, kernelCalls, outGlb, meshStats,
    conversionWarnings, conversion>>
policyVars == <<policyIn, policyOut>>
mapperVars == <<gltfNodes, mglb, nodeMapRaw, nodeIndex, mappedNodeMap>>
bomVars == <<bomRaw, bomNodeMap, bomSummary>>
asmVars == <<asmRoots, asmOverrides, asmBom>>
treeVars == <<treeNodeMap, tree>>
cadVars == <<cadOptions, cadNodeMap, cadBom, cadResult>>
loaderVars == <<ocModule, cachedPromise, ocLoads, ocCalls, initCalls>>
vars ==
  <<pc, glbVars, statsVars, boundsVars, retryVars, policyVars, mapperVars,
    bomVars,
    asmVars,
    treeVars,
    cadVars,
    loaderVars>>

\* What the operations of one component leave alone.
notGlbVars ==
  <<statsVars, boundsVars, retryVars, policyVars, mapperVars, bomVars,
    asmVars,
    treeVars,
    cadVars,
    loaderVars>>
notStatsVars ==
  <<glbVars, boundsVars, retryVars, policyVars, mapperVars, bomVars,
    asmVars,
    treeVars,
    cadVars,
    loaderVars>>
notBoundsVars ==
  <<glbVars, statsVars, retryVars, policyVars, mapperVars, bomVars,
    asmVars,
    treeVars,
    cadVars,
    loaderVars>>
notRetryVars ==
  <<glbVars, statsVars, boundsVars, policyVars, mapperVars, bomVars,
    asmVars,
    treeVars,
    cadVars,
    loaderVars>>
notPolicyVars ==
  <<glbVars, statsVars, boundsVars, retryVars, mapperVars, bomVars,
    asmVars,
    treeVars,
    cadVars,
    loaderVars>>
notBomVars ==
  <<glbVars, statsVars, boundsVars, retryVars, policyVars, mapperVars,
    asmVars,
    treeVars,
    cadVars,
    loaderVars>>
notMapperVars ==
  <<glbVars, statsVars, boundsVars, retryVars, policyVars, bomVars,
    asmVars,
    treeVars,
    cadVars,
    loaderVars>>
notAsmVars ==
  <<glbVars,
    statsVars,
    boundsVars,
    retryVars,
    policyVars,
    mapperVars,
    bomVars,
    treeVars,
    cadVars,
    loaderVars>>
notTreeVars ==
  <<glbVars,
    statsVars,
    boundsVars,
    retryVars,
    policyVars,
    mapperVars,
    bomVars,
    asmVars,
    cadVars,
    loaderVars>>
notCadVars ==
  <<glbVars,
    statsVars,
    boundsVars,
    retryVars,
    policyVars,
    mapperVars,
    bomVars,
    asmVars,
    treeVars,
    loaderVars>>
notLoaderVars ==
  <<glbVars,
    statsVars,
    boundsVars,
    retryVars,
    policyVars,
    mapperVars,
    bomVars,
    asmVars,
    treeVars,
    cadVars>>

----------------------------------------------------------------------------
(* Program constants *)

GLB_HEADER_LENGTH == 12
GLB_CHUNK_HEADER_LENGTH == 8
GLB_MAGIC == 1179937895
GLB_JSON_CHUNK == 1313821514
GLB_BIN_CHUNK == 5130562
TRIANGLES == 4

----------------------------------------------------------------------------
(* Typed arrays and DataView *)

Min(a, b) == IF a <= b THEN a ELSE b

\* Uint8Array.subarray(begin, end), 0-based, end exclusive, clamped.
Subarray(bytes, begin, end) ==
  LET e == Min(end, Len(bytes)) IN
  IF begin >= e THEN <<>> ELSE SubSeq(bytes, begin + 1, e)

\* DataView.getUint32(offset, true)
GetUint32(bytes, offset) ==
  bytes[offset + 1] + 256 * bytes[offset + 2]
    + 65536 * bytes[offset + 3] + 16777216 * bytes[offset + 4]

\* The four bytes DataView.setUint32(_, value, true) stores.
Uint32LE(value) ==
  << value % 256, (value \div 256) % 256,
     (value \div 65536) % 256, (value \div 16777216) % 256 >>

RECURSIVE Concat(_)
Concat(seqs) ==
  IF seqs = <<>> THEN <<>> ELSE Head(seqs) \o Concat(Tail(seqs))

Fill(n, byte) == [i \in 1..n |-> byte]

----------------------------------------------------------------------------
(* Thrown errors and returned values.  `class` is the error's constructor, *)
(* `message` its message up to the interpolated part (" (header ..." or    *)
(* " at offset ...").                                                      *)

Throw(class, message) == [ok |-> FALSE, class |-> class, message |-> message]

----------------------------------------------------------------------------
(* JS values *)

Undefined == [t |-> "undefined"]
Null == [t |-> "null"]
Bool(b) == [t |-> "bool", b |-> b]
Num(n) == [t |-> "num", n |-> n]
Str(s) == [t |-> "str", s |-> s]
Arr(a) == [t |-> "arr", a |-> a]
Obj(o) == [t |-> "obj", o |-> o]
Cycle == [t |-> "cycle"]
KV(k, v) == [k |-> k, v |-> v]

\* ToBoolean
Truthy(v) ==
  CASE v.t \in {"undefined", "null"} -> FALSE
    [] v.t = "bool" -> v.b
    [] v.t = "num" -> v.n # 0
    [] v.t = "str" -> v.s # <<>>
    [] OTHER -> TRUE

TypeofObject(v) == v.t \in {"null", "arr", "obj", "cycle"}
IsArray(v) == v.t = "arr"
TypeofNumber(v) == v.t = "num"
TypeofString(v) == v.t = "str"
IsNullish(v) == v.t \in {"undefined", "null"}

KeyIndex(o, k) ==
  IF \E i \in 1..Len(o) : o[i].k = k
  THEN CHOOSE i \in 1..Len(o) : o[i].k = k
  ELSE 0

\* v.k : property read on a non-nullish value (own JSON members only).
GetProp(v, k) ==
  IF v.t = "obj" /\ KeyIndex(v.o, k) # 0 THEN v.o[KeyIndex(v.o, k)].v
  ELSE Undefined

\* v?.k
OptProp(v, k) == IF IsNullish(v) THEN Undefined ELSE GetProp(v, k)

\* obj.k = val : an existing key keeps its place, a new key goes last.
SetProp(obj, k, val) ==
  LET i == KeyIndex(obj.o, k) IN
  IF i # 0 THEN Obj([obj.o EXCEPT ![i] = KV(k, val)])
  ELSE Obj(Append(obj.o, KV(k, val)))

RECURSIVE SpreadInto(_, _)
SpreadInto(target, members) ==
  IF members = <<>> THEN target
  ELSE SpreadInto(SetProp(target, Head(members).k, Head(members).v),
                  Tail(members))

\* The spread with the first operand winning, and with the first operand
\* dropped: what { ...a, ...b } must differ from.
SpreadFirstWins(a, b) == SpreadInto(SpreadInto(Obj(<<>>), b.o), a.o)
SpreadDropsFirst(a, b) == SpreadInto(Obj(<<>>), b.o)

\* { ...a, ...b } for plain objects a, b
ObjectSpread(a, b) == SpreadInto(SpreadInto(Obj(<<>>), a.o), b.o)

\* array[index] for a JS value used as index
ArrayAt(a, index) ==
  IF index.t = "num" /\ index.n >= 0 /\ index.n < Len(a)
  THEN a[index.n + 1] ELSE Undefined

----------------------------------------------------------------------------
(* TextDecoder('utf-8') / TextEncoder / String.prototype.trimEnd *)

\* The UTF-16 code units of one code point.
CodeUnits(cp) ==
  IF cp < 65536 THEN <<cp>>
  ELSE << 55296 + ((cp - 65536) \div 1024), 56320 + ((cp - 65536) % 1024) >>

\* The UTF-8 decoder of the Encoding standard (error mode "replacement"):
\* cp, seen, needed, lower, upper are the decoder's state before byte i.
RECURSIVE Utf8Decode(_, _, _, _, _, _, _)
Utf8Decode(b, i, cp, seen, needed, lower, upper) ==
  IF i > Len(b) THEN (IF needed # 0 THEN <<65533>> ELSE <<>>)
  ELSE
    LET byte == b[i] IN
    IF needed = 0 THEN
      IF byte <= 127 THEN <<byte>> \o Utf8Decode(b, i + 1, 0, 0, 0, 128, 191)
      ELSE IF byte \in 194..223
        THEN Utf8Decode(b, i + 1, byte % 32, 0, 1, 128, 191)
      ELSE IF byte \in 224..239
        THEN Utf8Decode(b, i + 1, byte % 16, 0, 2,
                        IF byte = 224 THEN 160 ELSE 128,
                        IF byte = 237 THEN 159 ELSE 191)
      ELSE IF byte \in 240..244
        THEN Utf8Decode(b, i + 1, byte % 8, 0, 3,
                        IF byte = 240 THEN 144 ELSE 128,
                        IF byte = 244 THEN 143 ELSE 191)
      ELSE <<65533>> \o Utf8Decode(b, i + 1, 0, 0, 0, 128, 191)
    ELSE IF byte < lower \/ byte > upper
      THEN <<65533>> \o Utf8Decode(b, i, 0, 0, 0, 128, 191)
    ELSE
      LET next == cp * 64 + (byte % 64) IN
      IF seen + 1 = needed
      THEN CodeUnits(next) \o Utf8Decode(b, i + 1, 0, 0, 0, 128, 191)
      ELSE Utf8Decode(b, i + 1, next, seen + 1, needed, 128, 191)

IsContinuationByte(x) == x \in 128..191

\* The decoder's output for bytes lo..hi.  A byte that is no continuation
\* byte always finds or puts the decoder in its initial state (a sequence it
\* interrupts yields U+FFFD, as at the end of input), so the range is decoded
\* in two halves split at such a byte; short ranges are decoded byte by byte.
RECURSIVE Utf8DecodeRange(_, _, _)
Utf8DecodeRange(b, lo, hi) ==
  IF hi - lo < 8 THEN Utf8Decode(SubSeq(b, lo, hi), 1, 0, 0, 0, 128, 191)
  ELSE
    LET mid == (lo + hi) \div 2
        m == IF ~IsContinuationByte(b[mid]) THEN mid
             ELSE IF ~IsContinuationByte(b[mid + 1]) THEN mid + 1
             ELSE IF ~IsContinuationByte(b[mid + 2]) THEN mid + 2
             ELSE IF ~IsContinuationByte(b[mid + 3]) THEN mid + 3
             ELSE 0
    IN
    IF m = 0 THEN Utf8Decode(SubSeq(b, lo, hi), 1, 0, 0, 0, 128, 191)
    ELSE Utf8DecodeRange(b, lo, m - 1) \o Utf8DecodeRange(b, m, hi)

\* UTF8_DECODER.decode(bytes): a leading byte order mark is dropped.
decodeUtf8(bytes) ==
  LET u == Utf8DecodeRange(bytes, 1, Len(bytes)) IN
  IF u # <<>> /\ Head(u) = 65279 THEN Tail(u) ELSE u

Utf8Bytes(cp) ==
  IF cp < 128 THEN <<cp>>
  ELSE IF cp < 2048 THEN << 192 + (cp \div 64), 128 + (cp % 64) >>
  ELSE IF cp < 65536
    THEN << 224 + (cp \div 4096), 128 + ((cp \div 64) % 64), 128 + (cp % 64) >>
  ELSE << 240 + (cp \div 262144), 128 + ((cp \div 4096) % 64),
          128 + ((cp \div 64) % 64), 128 + (cp % 64) >>

IsHighSurrogate(c) == c \in 55296..56319
IsLowSurrogate(c) == c \in 56320..57343

\* The encoder's output for a whole text: surrogate pairs are combined, lone
\* surrogates become U+FFFD.
RECURSIVE Utf8Encode(_)
Utf8Encode(text) ==
  IF text = <<>> THEN <<>>
  ELSE
    LET c == Head(text) IN
    IF IsHighSurrogate(c) /\ Len(text) >= 2 /\ IsLowSurrogate(text[2])
    THEN Utf8Bytes(65536 + (c - 55296) * 1024 + (text[2] - 56320))
           \o Utf8Encode(Tail(Tail(text)))
    ELSE Utf8Bytes(IF IsHighSurrogate(c) \/ IsLowSurrogate(c) THEN 65533 ELSE c)
           \o Utf8Encode(Tail(text))

\* The encoder's output for units lo..hi, halved between two units that are
\* no surrogate pair.
RECURSIVE Utf8EncodeRange(_, _, _)
Utf8EncodeRange(text, lo, hi) ==
  IF hi - lo < 8 THEN Utf8Encode(SubSeq(text, lo, hi))
  ELSE
    LET mid == (lo + hi) \div 2
        m == IF IsHighSurrogate(text[mid - 1]) /\ IsLowSurrogate(text[mid])
             THEN mid + 1 ELSE mid
    IN Utf8EncodeRange(text, lo, m - 1) \o Utf8EncodeRange(text, m, hi)

\* UTF8_ENCODER.encode(text)
encodeUtf8(text) == Utf8EncodeRange(text, 1, Len(text))

\* WhiteSpace and LineTerminator code units of ECMAScript.
IsJsWhiteSpace(c) ==
  \/ c \in {9, 10, 11, 12, 13, 32, 160, 5760, 8232, 8233, 8239, 8287, 12288, 65279}
  \/ c \in 8192..8202

RECURSIVE trimEnd(_)
trimEnd(text) ==
  IF text # <<>> /\ IsJsWhiteSpace(text[Len(text)])
  THEN trimEnd(SubSeq(text, 1, Len(text) - 1))
  ELSE text

----------------------------------------------------------------------------
(* JSON.stringify *)

RECURSIVE DecDigits(_)
DecDigits(n) ==
  IF n < 10 THEN <<48 + n>> ELSE Append(DecDigits(n \div 10), 48 + (n % 10))

NumberToString(n) == IF n < 0 THEN <<45>> \o DecDigits(-n) ELSE DecDigits(n)

HexDigit(d) == IF d < 10 THEN 48 + d ELSE 87 + d

UnicodeEscape(c) ==
  << 92, 117, HexDigit(c \div 4096), HexDigit((c \div 256) % 16),
     HexDigit((c \div 16) % 16), HexDigit(c % 16) >>

\* QuoteJSONString's body: text from index i on.
RECURSIVE QuoteUnits(_, _)
QuoteUnits(text, i) ==
  IF i > Len(text) THEN <<>>
  ELSE
    LET c == text[i] IN
    IF IsHighSurrogate(c) /\ i < Len(text) /\ IsLowSurrogate(text[i + 1])
    THEN <<c, text[i + 1]>> \o QuoteUnits(text, i + 2)
    ELSE
      (CASE c = 34 -> <<92, 34>>
         [] c = 92 -> <<92, 92>>
         [] c = 8 -> <<92, 98>>
         [] c = 9 -> <<92, 116>>
         [] c = 10 -> <<92, 110>>
         [] c = 12 -> <<92, 102>>
         [] c = 13 -> <<92, 114>>
         [] c < 32 /\ c \notin {8, 9, 10, 12, 13} -> UnicodeEscape(c)
         [] IsHighSurrogate(c) \/ IsLowSurrogate(c) -> UnicodeEscape(c)
         [] OTHER -> <<c>>)
        \o QuoteUnits(text, i + 1)

QuoteJSONString(text) == <<34>> \o QuoteUnits(text, 1) \o <<34>>

RECURSIVE JoinComma(_)
JoinComma(parts) ==
  IF parts = <<>> THEN <<>>
  ELSE IF Len(parts) = 1 THEN Head(parts)
  ELSE Head(parts) \o <<44>> \o JoinComma(Tail(parts))

Text(s) == [ok |-> TRUE, undef |-> FALSE, s |-> s]

\* SerializeJSONProperty: [ok, undef, s], or the TypeError of a cyclic value.
RECURSIVE SerializeJSONProperty(_)
RECURSIVE SerializeJSONArray(_, _, _)
RECURSIVE SerializeJSONObject(_, _, _)

SerializeJSONProperty(v) ==
  CASE v.t = "undefined" -> [ok |-> TRUE, undef |-> TRUE, s |-> <<>>]
    [] v.t = "null" -> Text(<<110, 117, 108, 108>>)
    [] v.t = "bool" ->
         Text(IF v.b THEN <<116, 114, 117, 101>> ELSE <<102, 97, 108, 115, 101>>)
    [] v.t = "num" -> Text(NumberToString(v.n))
    [] v.t = "str" -> Text(QuoteJSONString(v.s))
    [] v.t = "arr" -> SerializeJSONArray(v.a, 1, <<>>)
    [] v.t = "obj" -> SerializeJSONObject(v.o, 1, <<>>)
    [] v.t = "cycle" ->
         Throw("TypeError", "Converting circular structure to JSON")

SerializeJSONArray(a, i, parts) ==
  IF i > Len(a) THEN Text(<<91>> \o JoinComma(parts) \o <<93>>)
  ELSE
    LET r == SerializeJSONProperty(a[i]) IN
    IF ~r.ok THEN r
    ELSE SerializeJSONArray(a, i + 1,
           Append(parts, IF r.undef THEN <<110, 117, 108, 108>> ELSE r.s))

SerializeJSONObject(o, i, parts) ==
  IF i > Len(o) THEN Text(<<123>> \o JoinComma(parts) \o <<125>>)
  ELSE
    LET r == SerializeJSONProperty(o[i].v) IN
    IF ~r.ok THEN r
    ELSE SerializeJSONObject(o, i + 1,
           IF r.undef THEN parts
           ELSE Append(parts, QuoteJSONString(o[i].k) \o <<58>> \o r.s))

\* JSON.stringify(value) for a value that is not undefined at the root.
JsonStringify(value) == SerializeJSONProperty(value)

----------------------------------------------------------------------------
(* JSON.parse: integer number literals only *)

SyntaxError == Throw("SyntaxError", "Unexpected token in JSON")

RECURSIVE SkipWs(_, _)
SkipWs(s, i) ==
  IF i <= Len(s) /\ s[i] \in {9, 10, 13, 32} THEN SkipWs(s, i + 1) ELSE i

RECURSIVE ParseDigits(_, _, _)
ParseDigits(s, i, acc) ==
  IF i <= Len(s) /\ s[i] \in 48..57
  THEN ParseDigits(s, i + 1, acc * 10 + (s[i] - 48))
  ELSE [n |-> acc, i |-> i]

ParseNumber(s, i) ==
  LET neg == s[i] = 45
      j == IF neg THEN i + 1 ELSE i
  IN
  IF j > Len(s) \/ s[j] \notin 48..57 THEN SyntaxError
  ELSE
    LET d == IF s[j] = 48 THEN [n |-> 0, i |-> j + 1] ELSE ParseDigits(s, j, 0) IN
    IF d.i <= Len(s) /\ s[d.i] \in {46, 69, 101} THEN SyntaxError
    ELSE [ok |-> TRUE, v |-> Num(IF neg THEN -d.n ELSE d.n), i |-> d.i]

HexValue(c) ==
  IF c \in 48..57 THEN c - 48
  ELSE IF c \in 97..102 THEN c - 87
  ELSE IF c \in 65..70 THEN c - 55
  ELSE -1

\* s[i] is the unit after the opening quote or after the units in acc.
RECURSIVE ParseStringBody(_, _, _)
ParseStringBody(s, i, acc) ==
  IF i > Len(s) THEN SyntaxError
  ELSE
    LET c == s[i] IN
    IF c = 34 THEN [ok |-> TRUE, v |-> Str(acc), i |-> i + 1]
    ELSE IF c < 32 THEN SyntaxError
    ELSE IF c # 92 THEN ParseStringBody(s, i + 1, Append(acc, c))
    ELSE IF i + 1 > Len(s) THEN SyntaxError
    ELSE
      LET e == s[i + 1] IN
      IF e \in {34, 92, 47} THEN ParseStringBody(s, i + 2, Append(acc, e))
      ELSE IF e = 98 THEN ParseStringBody(s, i + 2, Append(acc, 8))
      ELSE IF e = 102 THEN ParseStringBody(s, i + 2, Append(acc, 12))
      ELSE IF e = 110 THEN ParseStringBody(s, i + 2, Append(acc, 10))
      ELSE IF e = 114 THEN ParseStringBody(s, i + 2, Append(acc, 13))
      ELSE IF e = 116 THEN ParseStringBody(s, i + 2, Append(acc, 9))
      ELSE IF e = 117 /\ i + 5 <= Len(s)
              /\ \A k \in 2..5 : HexValue(s[i + k]) >= 0
        THEN ParseStringBody(s, i + 6,
               Append(acc, 4096 * HexValue(s[i + 2]) + 256 * HexValue(s[i + 3])
                             + 16 * HexValue(s[i + 4]) + HexValue(s[i + 5])))
      ELSE SyntaxError

StartsWith(s, i, word) ==
  /\ i + Len(word) - 1 <= Len(s)
  /\ SubSeq(s, i, i + Len(word) - 1) = word

RECURSIVE ParseValue(_, _)
RECURSIVE ParseElements(_, _, _)
RECURSIVE ParseMembers(_, _, _)

\* JSON value at s[i..], leading white space allowed: [ok, v, i = next index].
ParseValue(s, i0) ==
  LET i == SkipWs(s, i0) IN
  IF i > Len(s) THEN SyntaxError
  ELSE
    LET c == s[i] IN
    IF c = 123 THEN
      LET j == SkipWs(s, i + 1) IN
      IF j <= Len(s) /\ s[j] = 125
      THEN [ok |-> TRUE, v |-> Obj(<<>>), i |-> j + 1]
      ELSE ParseMembers(s, j, Obj(<<>>))
    ELSE IF c = 91 THEN
      LET j == SkipWs(s, i + 1) IN
      IF j <= Len(s) /\ s[j] = 93
      THEN [ok |-> TRUE, v |-> Arr(<<>>), i |-> j + 1]
      ELSE ParseElements(s, j, <<>>)
    ELSE IF c = 34 THEN ParseStringBody(s, i + 1, <<>>)
    ELSE IF c = 45 \/ c \in 48..57 THEN ParseNumber(s, i)
    ELSE IF StartsWith(s, i, <<116, 114, 117, 101>>)
      THEN [ok |-> TRUE, v |-> Bool(TRUE), i |-> i + 4]
    ELSE IF StartsWith(s, i, <<102, 97, 108, 115, 101>>)
      THEN [ok |-> TRUE, v |-> Bool(FALSE), i |-> i + 5]
    ELSE IF StartsWith(s, i, <<110, 117, 108, 108>>)
      THEN [ok |-> TRUE, v |-> Null, i |-> i + 4]
    ELSE SyntaxError

\* Elements of an array from s[i..] on, after the elements in acc.
ParseElements(s, i, acc) ==
  LET r == ParseValue(s, i) IN
  IF ~r.ok THEN r
  ELSE
    LET j == SkipWs(s, r.i) IN
    IF j > Len(s) THEN SyntaxError
    ELSE IF s[j] = 93 THEN [ok |-> TRUE, v |-> Arr(Append(acc, r.v)), i |-> j + 1]
    ELSE IF s[j] = 44 THEN ParseElements(s, j + 1, Append(acc, r.v))
    ELSE SyntaxError

\* Members of an object from s[i..] on (white space skipped); a repeated key
\* keeps its first place and takes the last value.
ParseMembers(s, i, obj) ==
  IF i > Len(s) \/ s[i] # 34 THEN SyntaxError
  ELSE
    LET k == ParseStringBody(s, i + 1, <<>>) IN
    IF ~k.ok THEN k
    ELSE
      LET c == SkipWs(s, k.i) IN
      IF c > Len(s) \/ s[c] # 58 THEN SyntaxError
      ELSE
        LET r == ParseValue(s, c + 1) IN
        IF ~r.ok THEN r
        ELSE
          LET j == SkipWs(s, r.i)
              next == SetProp(obj, k.v.s, r.v)
          IN
          IF j > Len(s) THEN SyntaxError
          ELSE IF s[j] = 125 THEN [ok |-> TRUE, v |-> next, i |-> j + 1]
          ELSE IF s[j] = 44 THEN ParseMembers(s, SkipWs(s, j + 1), next)
          ELSE SyntaxError

JsonParse(text) ==
  LET r == ParseValue(text, 1) IN
  IF ~r.ok THEN r
  ELSE IF SkipWs(text, r.i) <= Len(text) THEN SyntaxError
  ELSE [ok |-> TRUE, v |-> r.v]

----------------------------------------------------------------------------
(* src/core/glb-metadata.ts *)

K_asset == <<97, 115, 115, 101, 116>>
K_extras == <<101, 120, 116, 114, 97, 115>>

isPlainObject(value) ==
  Truthy(value) /\ TypeofObject(value) /\ ~IsArray(value)

\* Faulty variant: the two messages exchanged.
LengthErrorSwapped(declaredLength, byteLength) ==
  IF declaredLength > byteLength
  THEN Throw("Error", "Invalid GLB: length mismatch")
  ELSE Throw("Error", "Invalid GLB: truncated file")

\* The error of a declared length that differs from the buffer length.
LengthError(declaredLength, byteLength) ==
  IF declaredLength > byteLength
  THEN Throw("Error", "Invalid GLB: truncated file")
  ELSE Throw("Error", "Invalid GLB: length mismatch")

\* Faulty variant: raw without the chunk's 8-byte header.
ParsedChunkRawIsData(g, offset, chunkStart, chunkEnd) ==
  [ type |-> GetUint32(g, offset + 4),
    data |-> Subarray(g, chunkStart, chunkEnd),
    raw |-> Subarray(g, chunkStart, chunkEnd) ]

ParsedChunk(g, offset, chunkStart, chunkEnd) ==
  [ type |-> GetUint32(g, offset + 4),
    data |-> Subarray(g, chunkStart, chunkEnd),
    raw |-> Subarray(g, offset, chunkEnd) ]

\* The while loop of parseGlb, entered with `offset` and the chunks pushed so far.
RECURSIVE parseGlbChunks(_, _, _)
parseGlbChunks(g, offset, chunks) ==
  IF offset + GLB_CHUNK_HEADER_LENGTH <= Len(g)
  THEN
    LET chunkLength == GetUint32(g, offset)
        chunkStart == offset + GLB_CHUNK_HEADER_LENGTH
        chunkEnd == chunkStart + chunkLength
    IN
    IF chunkEnd > Len(g)
    THEN Throw("Error", "Invalid GLB: truncated chunk")
    ELSE parseGlbChunks(g, chunkEnd,
           Append(chunks, ParsedChunk(g, offset, chunkStart, chunkEnd)))
  ELSE [ok |-> TRUE, chunks |-> chunks]

parseGlb(g) ==
  IF Len(g) < 4 THEN Throw("Error", "Invalid GLB: truncated header")
  ELSE IF GetUint32(g, 0) # GLB_MAGIC
    THEN Throw("Error", "Invalid GLB: invalid magic")
  ELSE IF Len(g) < GLB_HEADER_LENGTH + GLB_CHUNK_HEADER_LENGTH
    THEN Throw("Error", "Invalid GLB: truncated header")
  ELSE
    LET version == GetUint32(g, 4)
        declaredLength == GetUint32(g, 8)
    IN
    IF declaredLength # Len(g) THEN LengthError(declaredLength, Len(g))
    ELSE
      LET walk == parseGlbChunks(g, GLB_HEADER_LENGTH, <<>>) IN
      IF ~walk.ok THEN walk
      ELSE IF Len(walk.chunks) = 0
        THEN Throw("Error", "Invalid GLB: missing chunks")
      ELSE [ok |-> TRUE, version |-> version, chunks |-> walk.chunks]

RECURSIVE SumByteLength(_)
SumByteLength(rawChunks) ==
  IF rawChunks = <<>> THEN 0
  ELSE Len(Head(rawChunks)) + SumByteLength(Tail(rawChunks))

\* Faulty variant: the version written is always 2.
buildGlbFixedVersion(version, rawChunks) ==
  LET totalLength == GLB_HEADER_LENGTH + SumByteLength(rawChunks) IN
  Uint32LE(GLB_MAGIC) \o Uint32LE(2) \o Uint32LE(totalLength)
    \o Concat(rawChunks)

buildGlb(version, rawChunks) ==
  LET totalLength == GLB_HEADER_LENGTH + SumByteLength(rawChunks) IN
  Uint32LE(GLB_MAGIC) \o Uint32LE(version) \o Uint32LE(totalLength)
    \o Concat(rawChunks)

\* Faulty variant: no padding.
padTo4Never(bytes, padByte) == bytes

padTo4(bytes, padByte) ==
  LET paddedLength == ((Len(bytes) + 3) \div 4) * 4 IN
  IF paddedLength = Len(bytes) THEN bytes
  ELSE bytes \o Fill(paddedLength - Len(bytes), padByte)

buildJsonChunk(jsonText) ==
  LET data == encodeUtf8(jsonText)
      padded == padTo4(data, 32)
  IN Uint32LE(Len(padded)) \o Uint32LE(GLB_JSON_CHUNK) \o padded

\* Faulty variants: the last JSON chunk, and the first chunk whatever its type.
findLastJsonChunkIndex(chunks) ==
  IF \E i \in 1..Len(chunks) : chunks[i].type = GLB_JSON_CHUNK
  THEN (CHOOSE i \in 1..Len(chunks) :
          /\ chunks[i].type = GLB_JSON_CHUNK
          /\ \A j \in (i + 1)..Len(chunks) : chunks[j].type # GLB_JSON_CHUNK) - 1
  ELSE -1

findFirstChunkIndex(chunks) == 0

\* chunks.findIndex(c => c.type === GLB_JSON_CHUNK), 0-based, -1 when none.
findJsonChunkIndex(chunks) ==
  IF \E i \in 1..Len(chunks) : chunks[i].type = GLB_JSON_CHUNK
  THEN (CHOOSE i \in 1..Len(chunks) :
          /\ chunks[i].type = GLB_JSON_CHUNK
          /\ \A j \in 1..(i - 1) : chunks[j].type # GLB_JSON_CHUNK) - 1
  ELSE -1

\* Lines 55-64: the new JSON chunk replaces the chunk at jsonChunkIndex, the
\* others are passed through raw.
injectRebuild(p, jsonChunkIndex, nextJsonText) ==
  IF ~nextJsonText.ok
  THEN Throw("Error", "Invalid extras payload: not JSON-serializable")
  ELSE [ok |-> TRUE,
        glb |-> buildGlb(p.version,
                  [index \in 1..Len(p.chunks) |->
                     IF index = jsonChunkIndex + 1
                     THEN buildJsonChunk(nextJsonText.s)
                     ELSE p.chunks[index].raw])]

\* Lines 43-44: json.asset, then asset.extras, each {} unless a plain object.
assetOf(json) ==
  IF isPlainObject(GetProp(json, K_asset)) THEN GetProp(json, K_asset)
  ELSE Obj(<<>>)

existingExtrasOf(asset) ==
  IF isPlainObject(GetProp(asset, K_extras)) THEN GetProp(asset, K_extras)
  ELSE Obj(<<>>)

\* Lines 45-46: asset.extras = { ...existingExtras, ...extras }; json.asset = asset
mergeIntoAsset(json, asset, extrasPayload) ==
  SetProp(json, K_asset,
          SetProp(asset, K_extras,
                  ObjectSpread(existingExtrasOf(asset), extrasPayload)))

\* Lines 39-53, given the result of JSON.parse
injectIntoJson(p, jsonChunkIndex, json, extrasPayload) ==
  IF ~json.ok
  THEN Throw("Error", "Invalid GLB: JSON chunk is not valid JSON")
  ELSE IF ~isPlainObject(json.v)
  THEN Throw("Error", "Invalid GLB: JSON chunk root is not an object")
  ELSE injectRebuild(p, jsonChunkIndex,
         JsonStringify(mergeIntoAsset(json.v, assetOf(json.v), extrasPayload)))

\* Lines 27-37, given the result of findIndex
injectAtChunk(p, jsonChunkIndex, extrasPayload) ==
  IF jsonChunkIndex = -1
  THEN Throw("Error", "Invalid GLB: missing JSON chunk")
  ELSE injectIntoJson(p, jsonChunkIndex,
         JsonParse(trimEnd(decodeUtf8(p.chunks[jsonChunkIndex + 1].data))),
         extrasPayload)

\* Lines 23-26, given the result of parseGlb (its error propagates)
injectIntoParsed(p, extrasPayload) ==
  IF ~p.ok THEN p
  ELSE injectAtChunk(p, findJsonChunkIndex(p.chunks), extrasPayload)

injectAssetExtrasIntoGlb(g, extrasPayload) ==
  IF ~isPlainObject(extrasPayload)
  THEN Throw("Error", "Invalid extras payload: expected an object")
  ELSE injectIntoParsed(parseGlb(g), extrasPayload)

----------------------------------------------------------------------------
(* Inputs of the codec and the patcher.  A buffer is written the way the   *)
(* unit tests write theirs (buildGlbFromJsonText, buildGlbWithBin, and the *)
(* header fields the rejection tests overwrite): a layout of JSON and BIN  *)
(* chunks, the text of the first JSON chunk, and a fault.                  *)

MaxChunks == 2

Versions == {1, 2}

BinPayloads == { <<1, 2, 3, 4>>, <<>> }

\* One row per JSON chunk text: the payload bytes, whether the text is a
\* JSON object, and the asset.extras object it holds ({} when it has none).
PatcherTexts ==
  <<
  [ \* "{\"asset\":{\"version\":\"2.0\",\"extras\":{\"foo\":\"bar\"}},\"nodes\":[]}"
    bytes |-> <<123, 34, 97, 115, 115, 101, 116, 34, 58, 123, 34, 118, 101,
              114, 115, 105, 111, 110, 34, 58, 34, 50, 46, 48, 34, 44, 34,
              101, 120, 116, 114, 97, 115, 34, 58, 123, 34, 102, 111, 111,
              34, 58, 34, 98, 97, 114, 34, 125, 125, 44, 34, 110, 111, 100,
              101, 115, 34, 58, 91, 93, 125, 32, 32, 32>>,
    valid |-> TRUE,
    existing |-> Obj(<<KV(<<102, 111, 111>>, Str(<<98, 97, 114>>))>>) ],
  [ \* "{\"asset\":{\"version\":\"2.0\"}}"
    bytes |-> <<123, 34, 97, 115, 115, 101, 116, 34, 58, 123, 34, 118, 101,
              114, 115, 105, 111, 110, 34, 58, 34, 50, 46, 48, 34, 125,
              125, 32>>,
    valid |-> TRUE,
    existing |-> Obj(<<>>) ],
  [ \* "{\"asset\":\"nope\",\"nodes\":[]}"
    bytes |-> <<123, 34, 97, 115, 115, 101, 116, 34, 58, 34, 110, 111, 112,
              101, 34, 44, 34, 110, 111, 100, 101, 115, 34, 58, 91, 93,
              125, 32>>,
    valid |-> TRUE,
    existing |-> Obj(<<>>) ],
  [ \* "{\"asset\":{\"version\":\"2.0\",\"extras\":[\"nope\"]},\"nodes\":[]}"
    bytes |-> <<123, 34, 97, 115, 115, 101, 116, 34, 58, 123, 34, 118, 101,
              114, 115, 105, 111, 110, 34, 58, 34, 50, 46, 48, 34, 44, 34,
              101, 120, 116, 114, 97, 115, 34, 58, 91, 34, 110, 111, 112,
              101, 34, 93, 125, 44, 34, 110, 111, 100, 101, 115, 34, 58,
              91, 93, 125>>,
    valid |-> TRUE,
    existing |-> Obj(<<>>) ],
  [ \* "{}"
    bytes |-> <<123, 125, 32, 32>>,
    valid |-> TRUE,
    existing |-> Obj(<<>>) ],
  [ \* "{\"asset\":{\"extras\":{\"a\":1,\"b\":\"\u00e9\"}}}"
    bytes |-> <<123, 34, 97, 115, 115, 101, 116, 34, 58, 123, 34, 101, 120,
              116, 114, 97, 115, 34, 58, 123, 34, 97, 34, 58, 49, 44, 34,
              98, 34, 58, 34, 195, 169, 34, 125, 125, 125, 32, 32, 32>>,
    valid |-> TRUE,
    existing |-> Obj(<<KV(<<97>>, Num(1)), KV(<<98>>, Str(<<233>>))>>) ],
  [ \* "{ \"asset\" : { \"extras\" : { \"foo\" : [ 1, {\"x\": null} ], \"k\\n\" : true } } }\n"
    bytes |-> <<123, 32, 34, 97, 115, 115, 101, 116, 34, 32, 58, 32, 123,
              32, 34, 101, 120, 116, 114, 97, 115, 34, 32, 58, 32, 123, 32,
              34, 102, 111, 111, 34, 32, 58, 32, 91, 32, 49, 44, 32, 123,
              34, 120, 34, 58, 32, 110, 117, 108, 108, 125, 32, 93, 44, 32,
              34, 107, 92, 110, 34, 32, 58, 32, 116, 114, 117, 101, 32,
              125, 32, 125, 32, 125, 10, 32, 32>>,
    valid |-> TRUE,
    existing |-> Obj(<<KV(<<102, 111, 111>>, Arr(<<Num(1),
                 Obj(<<KV(<<120>>, Null)>>)>>)), KV(<<107, 10>>,
                 Bool(TRUE))>>) ],
  [ \* "{\"a\":1}"
    bytes |-> <<123, 34, 97, 34, 58, 49, 125>>,
    valid |-> TRUE,
    existing |-> Obj(<<>>) ],
  [ \* "{"
    bytes |-> <<123, 32, 32, 32>>,
    valid |-> FALSE,
    existing |-> Null ],
  [ \* "[\"not\",\"object\"]"
    bytes |-> <<91, 34, 110, 111, 116, 34, 44, 34, 111, 98, 106, 101, 99,
              116, 34, 93>>,
    valid |-> FALSE,
    existing |-> Null ],
  [ \* "{\"asset\":{}}\u0000\u0000"
    bytes |-> <<123, 34, 97, 115, 115, 101, 116, 34, 58, 123, 125, 125, 0,
              0, 32, 32>>,
    valid |-> FALSE,
    existing |-> Null ]
  >>

\* Payload of every JSON chunk after the first: {"asset":{"extras":{"z":0}}}
OtherJsonPayload ==
  <<123, 34, 97, 115, 115, 101, 116, 34, 58, 123, 34, 101, 120, 116, 114,
    97, 115, 34, 58, 123, 34, 122, 34, 58, 48, 125, 125, 125>>

NoFault ==
  [badMagic |-> FALSE, cut |-> 0, declDelta |-> 0, chunkLenDelta |-> 0,
   trailing |-> 0]

\* badMagic: byte 0 zeroed; cut: the buffer is its first `cut` bytes;
\* declDelta: added to the header's length; chunkLenDelta: added to the last
\* chunk's length; trailing: zero bytes after the last chunk.
Faults ==
  { NoFault,
    [NoFault EXCEPT !.badMagic = TRUE],
    [NoFault EXCEPT !.cut = 3],
    [NoFault EXCEPT !.cut = 3, !.badMagic = TRUE],
    [NoFault EXCEPT !.cut = 10],
    [NoFault EXCEPT !.cut = 10, !.badMagic = TRUE],
    [NoFault EXCEPT !.cut = 16],
    [NoFault EXCEPT !.declDelta = 4],
    [NoFault EXCEPT !.declDelta = -4],
    [NoFault EXCEPT !.declDelta = 4, !.badMagic = TRUE],
    [NoFault EXCEPT !.chunkLenDelta = 4],
    [NoFault EXCEPT !.chunkLenDelta = 4, !.declDelta = 4],
    [NoFault EXCEPT !.chunkLenDelta = 4, !.declDelta = -4],
    [NoFault EXCEPT !.trailing = 4],
    [NoFault EXCEPT !.trailing = 4, !.chunkLenDelta = 4] }

Layouts ==
  UNION { [1..n -> {"JSON", "BIN"}] : n \in 1..MaxChunks }

InputDescriptors ==
  { [layout |-> l, version |-> v, bin |-> b, text |-> x, fault |-> f] :
      l \in Layouts, v \in Versions, b \in BinPayloads,
      x \in 1..Len(PatcherTexts), f \in Faults }

FirstJson(layout) ==
  IF \E k \in 1..Len(layout) : layout[k] = "JSON"
  THEN CHOOSE k \in 1..Len(layout) :
         layout[k] = "JSON" /\ \A j \in 1..(k - 1) : layout[j] # "JSON"
  ELSE 0

InputPayload(d, k) ==
  IF d.layout[k] = "BIN" THEN d.bin
  ELSE IF k = FirstJson(d.layout) THEN PatcherTexts[d.text].bytes
  ELSE OtherJsonPayload

InputChunk(d, k) ==
  Uint32LE(Len(InputPayload(d, k))
             + (IF k = Len(d.layout) THEN d.fault.chunkLenDelta ELSE 0))
    \o Uint32LE(IF d.layout[k] = "BIN" THEN GLB_BIN_CHUNK ELSE GLB_JSON_CHUNK)
    \o InputPayload(d, k)

InputGlb(d) ==
  LET body == Concat([k \in 1..Len(d.layout) |-> InputChunk(d, k)])
                \o Fill(d.fault.trailing, 0)
      whole == Uint32LE(IF d.fault.badMagic THEN GLB_MAGIC - 103 ELSE GLB_MAGIC)
                 \o Uint32LE(d.version)
                 \o Uint32LE(GLB_HEADER_LENGTH + Len(body) + d.fault.declDelta)
                 \o body
  IN IF d.fault.cut = 0 THEN whole ELSE SubSeq(whole, 1, Min(d.fault.cut, Len(whole)))

\* Extras payloads a caller may pass: plain objects first, then the rest.
PlainExtras ==
  { Obj(<<>>),
    Obj(<<KV(<<98, 97, 122>>, Num(1))>>),
    Obj(<<KV(<<102, 111, 111>>, Str(<<120>>))>>),
    Obj(<<KV(<<102, 111, 111>>, Num(1)), KV(<<97>>, Num(2))>>),
    Obj(<<KV(<<97>>, Obj(<<KV(<<98>>, Arr(<<Num(1)>>))>>))>>) }

CyclicExtras == Obj(<<KV(<<115, 101, 108, 102>>, Cycle)>>)

NonObjectExtras == { Null, Undefined, Arr(<<Num(1)>>), Num(5), Str(<<115>>) }

ExtrasInputs == PlainExtras \cup {CyclicExtras} \cup NonObjectExtras

----------------------------------------------------------------------------
(* The codec and the patcher as a state machine: one input buffer, then    *)
(* either parse and rebuild, or inject once and inject again.              *)

None == [ok |-> FALSE, class |-> "", message |-> "not run"]

StatsIdle == sdoc = Null /\ sglb = <<>> /\ stats = None

BoundsIdle == bdoc = Null /\ bglb = <<>> /\ bounds = None

RetryIdle ==
  /\ options = Null
  /\ attempt = 0
  /\ triangulateUsed = Null
  /\ kernelCalls = <<>>
  /\ outGlb = Null
  /\ meshStats = Null
  /\ conversionWarnings = <<>>
  /\ conversion = None

PolicyIdle == policyIn = Null /\ policyOut = Null

BomIdle == bomRaw = Null /\ bomNodeMap = Null /\ bomSummary = None

MapperIdle ==
  /\ gltfNodes = Null
  /\ mglb = <<>>
  /\ nodeMapRaw = Null
  /\ nodeIndex = None
  /\ mappedNodeMap = None

AsmIdle ==
  /\ asmRoots = Null
  /\ asmOverrides = Null
  /\ asmBom = None

TreeIdle ==
  /\ treeNodeMap = Null
  /\ tree = None

CadIdle ==
  /\ cadOptions = Null
  /\ cadNodeMap = Null
  /\ cadBom = Null
  /\ cadResult = None

LoaderIdle ==
  /\ ocModule = ""
  /\ cachedPromise = 0
  /\ ocLoads = <<>>
  /\ ocCalls = <<>>
  /\ initCalls = 0

\* No component but the codec and the patcher has been used.
OnlyGlb ==
  StatsIdle /\ BoundsIdle /\ RetryIdle /\ PolicyIdle /\ MapperIdle /\ BomIdle
    /\ AsmIdle
    /\ TreeIdle
    /\ CadIdle
    /\ LoaderIdle

InitGlb ==
  /\ pc = "input"
  /\ \E d \in InputDescriptors :
       /\ (d.fault = NoFault \/ d.text = 1)
       /\ input = d
       /\ glb = InputGlb(d)
  /\ parsed = None
  /\ rebuilt = <<>>
  /\ extras = Undefined
  /\ injected = None
  /\ extras2 = Undefined
  /\ injected2 = None
  /\ lenientJson = None
  /\ lenientBin = None
  /\ OnlyGlb

Parse ==
  /\ pc = "input"
  /\ parsed' = parseGlb(glb)
  /\ pc' = "parsed"
  /\ UNCHANGED <<input, glb, rebuilt, extras, injected, extras2, injected2,
               lenientJson, lenientBin, notGlbVars>>

Build ==
  /\ pc = "parsed"
  /\ parsed.ok
  /\ rebuilt' = buildGlb(parsed.version,
                         [i \in 1..Len(parsed.chunks) |-> parsed.chunks[i].raw])
  /\ pc' = "rebuilt"
  /\ UNCHANGED <<input, glb, parsed, extras, injected, extras2, injected2,
               lenientJson, lenientBin, notGlbVars>>

Inject ==
  /\ pc = "input"
  /\ \E e \in ExtrasInputs :
       /\ extras' = e
       /\ injected' = injectAssetExtrasIntoGlb(glb, e)
  /\ pc' = "injected"
  /\ UNCHANGED <<input, glb, parsed, rebuilt, extras2, injected2,
               lenientJson, lenientBin, notGlbVars>>

InjectAgain ==
  /\ pc = "injected"
  /\ injected.ok
  /\ \E e \in PlainExtras :
       /\ extras2' = e
       /\ injected2' = injectAssetExtrasIntoGlb(injected.glb, e)
  /\ pc' = "injected2"
  /\ UNCHANGED <<input, glb, parsed, rebuilt, extras, injected,
               lenientJson, lenientBin, notGlbVars>>


----------------------------------------------------------------------------
(* Properties of the codec and the patcher (SpecGlb) *)

\* The chunks starting at `offset` tile the buffer exactly up to its end.
RECURSIVE TilesExactly(_, _)
TilesExactly(g, offset) ==
  \/ offset = Len(g)
  \/ /\ offset + 8 <= Len(g)
     /\ offset + 8 + GetUint32(g, offset) <= Len(g)
     /\ TilesExactly(g, offset + 8 + GetUint32(g, offset))

WellFormedGlb(g) ==
  /\ Len(g) >= 20
  /\ GetUint32(g, 0) = GLB_MAGIC
  /\ GetUint32(g, 8) = Len(g)
  /\ TilesExactly(g, 12)

\* C1: for every well-formed GLB buffer (valid magic, declared length equal
\* to the buffer length, chunks exactly tiling bytes 12..end) parseGlb
\* succeeds, and buildGlb applied to the version and the raw chunks it
\* returned gives back the same bytes.
C1_RoundTrip ==
  WellFormedGlb(glb) =>
    /\ pc = "parsed" => parsed.ok
    /\ pc = "rebuilt" => rebuilt = glb

C1_Witness ==
  /\ pc = "rebuilt"
  /\ WellFormedGlb(glb)
  /\ input.layout = <<"JSON", "BIN">>
  /\ input.bin # <<>>
  /\ Len(parsed.chunks) = 2
  /\ rebuilt = glb

\* Number of 0x20 bytes at the end of a byte sequence.
RECURSIVE TrailingSpaces(_)
TrailingSpaces(bytes) ==
  IF bytes # <<>> /\ bytes[Len(bytes)] = 32
  THEN 1 + TrailingSpaces(SubSeq(bytes, 1, Len(bytes) - 1))
  ELSE 0

RECURSIVE SumChunkBytes(_)
SumChunkBytes(chunks) ==
  IF chunks = <<>> THEN 0
  ELSE 8 + Len(Head(chunks).data) + SumChunkBytes(Tail(chunks))

\* A buffer whose header length is its byte length, which parseGlb accepts,
\* and whose chunk k is a JSON chunk padded with the fewest spaces (0 to 3)
\* that make its length a multiple of 4.
WellFormedOutput(out, k) ==
  /\ GetUint32(out, 8) = Len(out)
  /\ parseGlb(out).ok
  /\ Len(out) = 12 + SumChunkBytes(parseGlb(out).chunks)
  /\ LET chunk == parseGlb(out).chunks[k] IN
     /\ chunk.type = GLB_JSON_CHUNK
     /\ GetUint32(chunk.raw, 0) = Len(chunk.data)
     /\ Len(chunk.data) % 4 = 0
     /\ TrailingSpaces(chunk.data) <= 3
     /\ chunk.data[Len(chunk.data) - TrailingSpaces(chunk.data)] = 125

\* C2: whenever injectAssetExtrasIntoGlb succeeds, the returned buffer is a
\* well-formed GLB: the header length equals the byte length (12 plus, per
\* chunk, 8 plus the payload length), the new JSON chunk's declared length is
\* its space-padded payload length, a multiple of 4 reached with 0 to 3 pad
\* bytes 0x20, and parseGlb accepts the buffer.
C2_OutputWellFormed ==
  /\ (pc \in {"injected", "injected2"} /\ injected.ok) =>
       WellFormedOutput(injected.glb, FirstJson(input.layout))
  /\ (pc = "injected2" /\ injected2.ok) =>
       WellFormedOutput(injected2.glb, FirstJson(input.layout))

\* The input chunk is unaligned ({"a":1}, 7 bytes) and the output chunk
\* ({"a":1,"asset":{"extras":{}}}, 29 bytes) needs three pad bytes.
C2_Witness ==
  /\ pc = "injected"
  /\ injected.ok
  /\ input.text = 8
  /\ extras = Obj(<<>>)
  /\ TrailingSpaces(parseGlb(injected.glb).chunks[FirstJson(input.layout)].data) = 3

\* C3: injectAssetExtrasIntoGlb changes only the first JSON chunk: the output
\* has the version, the number and the order of chunks of the input, and
\* every other chunk (header and payload) is byte-identical to the input's.
OnlyFirstJsonChanged(in, out, k) ==
  /\ parseGlb(out).ok
  /\ parseGlb(out).version = parseGlb(in).version
  /\ Len(parseGlb(out).chunks) = Len(parseGlb(in).chunks)
  /\ \A i \in 1..Len(parseGlb(in).chunks) :
       /\ parseGlb(out).chunks[i].type = parseGlb(in).chunks[i].type
       /\ i # k => parseGlb(out).chunks[i].raw = parseGlb(in).chunks[i].raw

C3_OnlyJsonChunkChanges ==
  (pc = "injected" /\ injected.ok) =>
    OnlyFirstJsonChanged(glb, injected.glb, FirstJson(input.layout))

C3_Witness ==
  /\ pc = "injected"
  /\ injected.ok
  /\ input.layout = <<"JSON", "JSON">>
  /\ extras = Obj(<<KV(<<98, 97, 122>>, Num(1))>>)
  /\ parseGlb(injected.glb).chunks[1].raw # parseGlb(glb).chunks[1].raw
  /\ parseGlb(injected.glb).chunks[2].raw = parseGlb(glb).chunks[2].raw

\* Reading a result back: asset.extras of the JSON document in chunk k.
AssetExtrasOf(g, k) ==
  GetProp(GetProp(JsonParse(trimEnd(decodeUtf8(parseGlb(g).chunks[k].data))).v,
                  K_asset),
          K_extras)

Keys(obj) == { obj.o[i].k : i \in 1..Len(obj.o) }

\* `merged` holds every member of `new`, every member of `old` whose key is
\* not in `new`, and nothing else.
IsShallowMerge(merged, old, new) ==
  /\ merged.t = "obj"
  /\ Len(merged.o) = Cardinality(Keys(merged))
  /\ Keys(merged) = Keys(old) \cup Keys(new)
  /\ \A k \in Keys(new) : GetProp(merged, k) = GetProp(new, k)
  /\ \A k \in Keys(old) \ Keys(new) : GetProp(merged, k) = GetProp(old, k)

\* C4: after a successful injectAssetExtrasIntoGlb(glb, extras) the output's
\* asset.extras is the shallow merge of the existing extras ({} when asset or
\* asset.extras is absent or not an object) with extras: keys of extras carry
\* the new value, other existing keys keep theirs, no other key appears.
C4_ShallowMerge ==
  (pc = "injected" /\ injected.ok) =>
    IsShallowMerge(AssetExtrasOf(injected.glb, FirstJson(input.layout)),
                   PatcherTexts[input.text].existing, extras)

\* Existing {"foo":"bar"}, payload {"foo":1,"a":2}: foo is overwritten.
C4_Witness ==
  /\ pc = "injected"
  /\ injected.ok
  /\ input.text = 1
  /\ extras = Obj(<<KV(<<102, 111, 111>>, Num(1)), KV(<<97>>, Num(2))>>)
  /\ GetProp(AssetExtrasOf(injected.glb, FirstJson(input.layout)),
             <<102, 111, 111>>) = Num(1)

SameMembers(a, b) ==
  /\ a.t = "obj" /\ b.t = "obj"
  /\ Keys(a) = Keys(b)
  /\ \A k \in Keys(a) : GetProp(a, k) = GetProp(b, k)

\* The union of two extras objects in which the second one's values win.
UnionOf(e1, e2) ==
  Obj(SelectSeq(e1.o, LAMBDA m : m.k \notin Keys(e2)) \o e2.o)

\* C5: injecting e and then e again gives the asset.extras of injecting e
\* once; injecting e1 and then e2 gives the asset.extras of injecting once
\* their union with e2 winning on shared keys; and in every case the chunks
\* other than the JSON chunk are byte-identical to those of the first input.
C5_InjectTwice ==
  (pc = "injected2" /\ injected2.ok) =>
    LET k == FirstJson(input.layout) IN
    /\ extras2 = extras =>
         SameMembers(AssetExtrasOf(injected2.glb, k),
                     AssetExtrasOf(injected.glb, k))
    /\ injectAssetExtrasIntoGlb(glb, UnionOf(extras, extras2)).ok
    /\ SameMembers(AssetExtrasOf(injected2.glb, k),
                   AssetExtrasOf(
                     injectAssetExtrasIntoGlb(glb, UnionOf(extras, extras2)).glb,
                     k))
    /\ OnlyFirstJsonChanged(glb, injected2.glb, k)

\* {"baz":1} and then {"foo":1,"a":2} over existing {"foo":"bar"}, next to a
\* BIN chunk.
C5_Witness ==
  /\ pc = "injected2"
  /\ injected2.ok
  /\ input.text = 1
  /\ input.layout = <<"JSON", "BIN">>
  /\ extras = Obj(<<KV(<<98, 97, 122>>, Num(1))>>)
  /\ extras2 = Obj(<<KV(<<102, 111, 111>>, Num(1)), KV(<<97>>, Num(2))>>)
  /\ Keys(AssetExtrasOf(injected2.glb, 1)) = { <<98, 97, 122>>, <<102, 111, 111>>, <<97>> }

\* Some chunk header reached by the walk from `offset` declares a payload that
\* ends beyond the buffer.
RECURSIVE ChunkOverrun(_, _)
ChunkOverrun(g, offset) ==
  /\ offset + 8 <= Len(g)
  /\ \/ offset + 8 + GetUint32(g, offset) > Len(g)
     \/ ChunkOverrun(g, offset + 8 + GetUint32(g, offset))

Fails(result, message) ==
  /\ ~result.ok
  /\ result.message = message
  /\ DOMAIN result = {"ok", "class", "message"}

\* C6: parseGlb reports the first failing check, in this order, and returns
\* no container on failure: under 4 bytes, truncated header; a first word
\* other than the magic, invalid magic (also under 20 bytes); valid magic
\* under 20 bytes, truncated header; declared length above the buffer length,
\* truncated file; below it, length mismatch; and only then a chunk whose
\* payload ends beyond the buffer, truncated chunk.
C6_ErrorOrder ==
  pc = "parsed" =>
    /\ Len(glb) < 4 => Fails(parsed, "Invalid GLB: truncated header")
    /\ (Len(glb) >= 4 /\ GetUint32(glb, 0) # GLB_MAGIC) =>
         Fails(parsed, "Invalid GLB: invalid magic")
    /\ (Len(glb) >= 4 /\ GetUint32(glb, 0) = GLB_MAGIC) =>
         /\ Len(glb) < 20 => Fails(parsed, "Invalid GLB: truncated header")
         /\ Len(glb) >= 20 =>
              /\ GetUint32(glb, 8) > Len(glb) =>
                   Fails(parsed, "Invalid GLB: truncated file")
              /\ GetUint32(glb, 8) < Len(glb) =>
                   Fails(parsed, "Invalid GLB: length mismatch")
              /\ (GetUint32(glb, 8) = Len(glb) /\ ChunkOverrun(glb, 12)) =>
                   Fails(parsed, "Invalid GLB: truncated chunk")
    /\ ~parsed.ok => DOMAIN parsed = {"ok", "class", "message"}

\* A 10-byte buffer with a wrong first word fails as invalid magic, not as
\* truncated header.
C6_Witness ==
  /\ pc = "parsed"
  /\ Len(glb) = 10
  /\ GetUint32(glb, 0) # GLB_MAGIC
  /\ Fails(parsed, "Invalid GLB: invalid magic")

ChunkTypeOf(kind) == IF kind = "BIN" THEN GLB_BIN_CHUNK ELSE GLB_JSON_CHUNK

BinChunks(chunks) == { i \in 1..Len(chunks) : chunks[i].type = GLB_BIN_CHUNK }

\* C7 as stated: every container parseGlb returns has a JSON chunk first and
\* at most one BIN chunk, which if present is the second chunk.
C7_ContainerInvariant ==
  (pc = "parsed" /\ parsed.ok) =>
    /\ parsed.chunks[1].type = GLB_JSON_CHUNK
    /\ BinChunks(parsed.chunks) \subseteq {2}

\* C7 as amended: every container parseGlb returns has at least one chunk and
\* carries the chunk types of the buffer in buffer order, whatever they are;
\* the one requirement on types is made by injectAssetExtrasIntoGlb, which on
\* a buffer parseGlb accepts fails with "missing JSON chunk" exactly when no
\* chunk is of JSON type.
C7_ParseKeepsAnyChunkTypes ==
  /\ (pc = "parsed" /\ parsed.ok) =>
       /\ Len(parsed.chunks) >= 1
       /\ Len(parsed.chunks) = Len(input.layout)
       /\ \A i \in 1..Len(parsed.chunks) :
            parsed.chunks[i].type = ChunkTypeOf(input.layout[i])
  /\ (pc = "injected" /\ isPlainObject(extras) /\ parseGlb(glb).ok) =>
       (Fails(injected, "Invalid GLB: missing JSON chunk")
          <=> FirstJson(input.layout) = 0)

\* Two BIN chunks and no JSON chunk: parsed as they are.
C7_Witness ==
  /\ pc = "parsed"
  /\ parsed.ok
  /\ input.layout = <<"BIN", "BIN">>
  /\ BinChunks(parsed.chunks) = {1, 2}

\* C8 as stated: a non-object extras payload is rejected with a
\* ValidationError, before the buffer is parsed, so with the same failure
\* whether or not the buffer is a valid GLB.
C8_NonObjectExtrasRejected ==
  (pc = "injected" /\ extras \in NonObjectExtras) =>
    /\ ~injected.ok
    /\ injected.class = "ValidationError"
    /\ injected.message = "Invalid extras payload: expected an object"

----------------------------------------------------------------------------
(* src/core/glb-parse.ts *)

isGlbMagic(g) ==
  IF Len(g) < 4 THEN FALSE
  ELSE g[1] = 103 /\ g[2] = 108 /\ g[3] = 84 /\ g[4] = 70

\* The while loop of parseGlbJson, entered with `offset`: the document of the
\* first JSON chunk, as JSON.parse returns it or fails on it.
RECURSIVE parseGlbJsonChunks(_, _)
parseGlbJsonChunks(g, offset) ==
  IF offset + GLB_CHUNK_HEADER_LENGTH <= Len(g)
  THEN
    IF offset + GLB_CHUNK_HEADER_LENGTH + GetUint32(g, offset) > Len(g)
    THEN Throw("Error", "Invalid GLB: truncated chunk")
    ELSE IF GetUint32(g, offset + 4) = GLB_JSON_CHUNK
    THEN JsonParse(decodeUtf8(
           Subarray(g, offset + GLB_CHUNK_HEADER_LENGTH,
                    offset + GLB_CHUNK_HEADER_LENGTH + GetUint32(g, offset))))
    ELSE parseGlbJsonChunks(g,
           offset + GLB_CHUNK_HEADER_LENGTH + GetUint32(g, offset))
  ELSE Throw("Error", "Invalid GLB: missing JSON chunk")

parseGlbJson(g) ==
  IF Len(g) < GLB_HEADER_LENGTH + GLB_CHUNK_HEADER_LENGTH
  THEN Throw("Error", "Invalid GLB: truncated header")
  ELSE IF ~isGlbMagic(g)
  THEN Throw("Error", "Invalid GLB: invalid magic")
  ELSE parseGlbJsonChunks(g, GLB_HEADER_LENGTH)

----------------------------------------------------------------------------
(* src/core/glb-geometry.ts: summarizeGlbGeometry *)

K_accessors == <<97, 99, 99, 101, 115, 115, 111, 114, 115>>
K_meshes == <<109, 101, 115, 104, 101, 115>>
K_nodes == <<110, 111, 100, 101, 115>>
K_primitives == <<112, 114, 105, 109, 105, 116, 105, 118, 101, 115>>
K_attributes == <<97, 116, 116, 114, 105, 98, 117, 116, 101, 115>>
K_POSITION == <<80, 79, 83, 73, 84, 73, 79, 78>>
K_mode == <<109, 111, 100, 101>>
K_indices == <<105, 110, 100, 105, 99, 101, 115>>
K_count == <<99, 111, 117, 110, 116>>
K_mesh == <<109, 101, 115, 104>>

NaN == [nan |-> TRUE, n |-> 0]
Finite(n) == [nan |-> FALSE, n |-> n]

IsDigits(s) == s # <<>> /\ \A i \in 1..Len(s) : s[i] \in 48..57

\* Number(v): integers and decimal numerals only.
RECURSIVE ToNumber(_)
ToNumber(v) ==
  CASE v.t = "undefined" -> NaN
    [] v.t = "null" -> Finite(0)
    [] v.t = "bool" -> Finite(IF v.b THEN 1 ELSE 0)
    [] v.t = "num" -> Finite(v.n)
    [] v.t = "str" ->
         IF v.s = <<>> THEN Finite(0)
         ELSE IF IsDigits(v.s) THEN Finite(ParseDigits(v.s, 1, 0).n)
         ELSE NaN
    [] v.t = "arr" ->
         IF v.a = <<>> THEN Finite(0)
         ELSE IF Len(v.a) > 1 THEN NaN
         ELSE IF IsNullish(v.a[1]) THEN Finite(0)
         ELSE IF v.a[1].t \in {"num", "str", "arr"} THEN ToNumber(v.a[1])
         ELSE NaN
    [] OTHER -> NaN

\* Array.isArray(v) ? v : []
ArrayOrEmpty(v) == IF IsArray(v) THEN v.a ELSE <<>>

\* const count = Number(accessor?.count); floor(count / 3) when finite and
\* positive, nothing otherwise.
trianglesOfAccessor(accessors, index) ==
  IF /\ ~ToNumber(OptProp(ArrayAt(accessors, index), K_count)).nan
     /\ ToNumber(OptProp(ArrayAt(accessors, index), K_count)).n > 0
  THEN ToNumber(OptProp(ArrayAt(accessors, index), K_count)).n \div 3
  ELSE 0

posAccessorIndexOf(prim) == OptProp(OptProp(prim, K_attributes), K_POSITION)

modeOf(prim) ==
  IF TypeofNumber(OptProp(prim, K_mode)) THEN OptProp(prim, K_mode).n
  ELSE TRIANGLES

\* A count that falls back to the POSITION accessor when the indices
\* accessor's count is unusable: what the code does not do.
trianglesOfPrimitiveFallsBack(accessors, prim) ==
  IF modeOf(prim) # TRIANGLES THEN 0
  ELSE IF /\ TypeofNumber(OptProp(prim, K_indices))
          /\ trianglesOfAccessor(accessors, OptProp(prim, K_indices)) > 0
  THEN trianglesOfAccessor(accessors, OptProp(prim, K_indices))
  ELSE IF TypeofNumber(posAccessorIndexOf(prim))
  THEN trianglesOfAccessor(accessors, posAccessorIndexOf(prim))
  ELSE 0

\* What one primitive adds to `triangles`.
trianglesOfPrimitive(accessors, prim) ==
  IF modeOf(prim) # TRIANGLES THEN 0
  ELSE IF TypeofNumber(OptProp(prim, K_indices))
  THEN trianglesOfAccessor(accessors, OptProp(prim, K_indices))
  ELSE IF TypeofNumber(posAccessorIndexOf(prim))
  THEN trianglesOfAccessor(accessors, posAccessorIndexOf(prim))
  ELSE 0

\* The body of the inner forEach, applied to the counters.
countPrimitive(accessors, prim, acc) ==
  [ok |-> TRUE,
   triangles |-> acc.triangles + trianglesOfPrimitive(accessors, prim),
   primitiveCount |-> acc.primitiveCount + 1,
   primitivesWithPositionCount |->
     acc.primitivesWithPositionCount
       + (IF TypeofNumber(posAccessorIndexOf(prim)) THEN 1 ELSE 0)]

RECURSIVE forEachPrimitive(_, _, _, _)
forEachPrimitive(accessors, prims, i, acc) ==
  IF i > Len(prims) THEN acc
  ELSE forEachPrimitive(accessors, prims, i + 1,
                        countPrimitive(accessors, prims[i], acc))

\* (mesh?.primitives ?? []).forEach(...): a value that is neither nullish nor
\* an array has no forEach.
forEachPrimitiveOf(accessors, primitives, acc) ==
  IF IsNullish(primitives) THEN acc
  ELSE IF IsArray(primitives)
  THEN forEachPrimitive(accessors, primitives.a, 1, acc)
  ELSE Throw("TypeError", "(intermediate value).forEach is not a function")

RECURSIVE forEachMesh(_, _, _, _)
forEachMesh(accessors, meshes, i, acc) ==
  IF ~acc.ok \/ i > Len(meshes) THEN acc
  ELSE forEachMesh(accessors, meshes, i + 1,
         forEachPrimitiveOf(accessors, OptProp(meshes[i], K_primitives), acc))

nodesWithMesh(nodes) ==
  Cardinality({ i \in 1..Len(nodes) : TypeofNumber(OptProp(nodes[i], K_mesh)) })

summaryOf(meshes, nodes, counters) ==
  IF ~counters.ok THEN counters
  ELSE [ok |-> TRUE,
        triangles |-> counters.triangles,
        meshCount |-> Len(meshes),
        nodeCount |-> Len(nodes),
        primitiveCount |-> counters.primitiveCount,
        nodesWithMeshCount |-> nodesWithMesh(nodes),
        primitivesWithPositionCount |-> counters.primitivesWithPositionCount]

summarizeGltf(gltf) ==
  IF ~gltf.ok THEN gltf
  ELSE summaryOf(
         ArrayOrEmpty(OptProp(gltf.v, K_meshes)),
         ArrayOrEmpty(OptProp(gltf.v, K_nodes)),
         forEachMesh(ArrayOrEmpty(OptProp(gltf.v, K_accessors)),
                     ArrayOrEmpty(OptProp(gltf.v, K_meshes)), 1,
                     [ok |-> TRUE, triangles |-> 0, primitiveCount |-> 0,
                      primitivesWithPositionCount |-> 0]))

summarizeGlbGeometry(g) == summarizeGltf(parseGlbJson(g))

----------------------------------------------------------------------------
(* Inputs of summarizeGlbGeometry.  A document is written the way the unit  *)
(* tests write theirs: a list of accessors, meshes holding primitives that  *)
(* name accessors by index, and nodes; or it is one of a few documents of   *)
(* another shape.                                                           *)

MaxPrims == 2

\* accessors[i].count for i = 0..6; Undefined: the accessor has no count.
AccessorCounts ==
  << Num(6), Num(4), Str(<<110, 111, 112, 101>>), Num(0), Undefined, Num(7), Num(-3) >>

Prim(mode, indices, position) ==
  [mode |-> mode, indices |-> indices, position |-> position]

\* mode, indices and attributes.POSITION of a primitive; Undefined: absent.
PrimVariants ==
  { Prim(Undefined, Num(0), Num(1)),
    Prim(Undefined, Undefined, Num(0)),
    Prim(Undefined, Undefined, Num(1)),
    Prim(Num(1), Undefined, Num(0)),
    Prim(Num(4), Num(0), Num(0)),
    Prim(Num(0), Num(5), Num(5)),
    Prim(Undefined, Num(2), Num(0)),
    Prim(Undefined, Num(3), Num(0)),
    Prim(Num(4), Num(4), Num(0)),
    Prim(Undefined, Num(6), Num(0)),
    Prim(Undefined, Num(9), Num(0)),
    Prim(Undefined, Num(5), Undefined),
    Prim(Undefined, Undefined, Undefined) }

Member(k, v) == IF v = Undefined THEN <<>> ELSE <<KV(k, v)>>

PrimitiveValue(d) ==
  Obj(Member(K_attributes,
             IF d.position = Undefined THEN Undefined
             ELSE Obj(<<KV(K_POSITION, d.position)>>))
      \o Member(K_indices, d.indices)
      \o Member(K_mode, d.mode))

MeshValue(prims) ==
  Obj(<<KV(K_primitives, Arr([i \in 1..Len(prims) |-> PrimitiveValue(prims[i])]))>>)

AccessorsValue ==
  Arr([i \in 1..Len(AccessorCounts) |-> Obj(Member(K_count, AccessorCounts[i]))])

\* One mesh with all the primitives, or one mesh per primitive.
MeshesValue(prims, split) ==
  IF split THEN Arr([i \in 1..Len(prims) |-> MeshValue(<<prims[i]>>)])
  ELSE Arr(<<MeshValue(prims)>>)

GltfValue(prims, split) ==
  Obj(<< KV(K_asset, Obj(<<KV(<<118>>, Str(<<50>>))>>)),
         KV(K_accessors, AccessorsValue),
         KV(K_meshes, MeshesValue(prims, split)),
         KV(K_nodes, Arr(<<Obj(<<KV(K_mesh, Num(0))>>), Obj(<<>>)>>)) >>)

\* Documents of another shape: members missing or of the wrong type.
OtherShapes ==
  << Obj(<<>>),
     Obj(<< KV(K_accessors, Obj(<<>>)),
            KV(K_meshes, Arr(<<MeshValue(<<Prim(Undefined, Undefined, Num(0))>>)>>)),
            KV(K_nodes, Arr(<<>>)) >>),
     Obj(<< KV(K_accessors, Num(5)), KV(K_meshes, Obj(<<>>)),
            KV(K_nodes, Str(<<120>>)) >>),
     Obj(<< KV(K_meshes, Arr(<< Null, Obj(<<>>),
                                Obj(<<KV(K_primitives, Null)>>),
                                Num(5), Str(<<109>>) >>)),
            KV(K_nodes, Arr(<< Null, Obj(<<>>), Obj(<<KV(K_mesh, Num(0))>>),
                               Obj(<<KV(K_mesh, Str(<<48>>))>>), Num(7) >>)) >>),
     Obj(<< KV(K_accessors, AccessorsValue),
            KV(K_meshes, Arr(<<Obj(<<KV(K_primitives,
               Arr(<< Null, Num(5), Str(<<112>>),
                      Obj(<<KV(K_attributes, Null)>>),
                      Obj(<<KV(K_attributes,
                               Obj(<<KV(K_POSITION, Str(<<48>>))>>))>>) >>))>>)>>)) >>),
     Obj(<<KV(K_meshes, Arr(<<Obj(<<KV(K_primitives, Num(5))>>)>>))>>),
     Obj(<<KV(K_meshes, Arr(<<Obj(<<KV(K_primitives, Obj(<<>>))>>)>>))>>),
     Obj(<<KV(K_meshes, Arr(<<Obj(<<KV(K_primitives, Str(<<97, 98>>))>>)>>))>>),
     Null,
     Arr(<<Num(1)>>),
     Num(5) >>

\* What is done to the buffer after it is built.
Mangles ==
  { "none", "empty", "cut3", "cut16", "badMagic", "overrun", "binOnly",
    "badJson" }

PrimLists == UNION { [1..n -> PrimVariants] : n \in 0..MaxPrims }

StatsInputs ==
  { [shape |-> 0, prims |-> ps, split |-> s, mangle |-> "none"] :
      ps \in PrimLists, s \in BOOLEAN }
  \cup { [shape |-> k, prims |-> <<>>, split |-> FALSE, mangle |-> "none"] :
           k \in 1..Len(OtherShapes) }
  \cup { [shape |-> 0, prims |-> <<Prim(Undefined, Num(0), Num(1))>>,
          split |-> FALSE, mangle |-> m] : m \in Mangles }

StatsDocument(d) ==
  IF d.shape = 0 THEN GltfValue(d.prims, d.split) ELSE OtherShapes[d.shape]

\* buildGlbFromJson of the unit tests, then the mangling.
buildGlbFromJson(text, mangle) ==
  LET bytes == IF mangle = "badJson" THEN <<123>> ELSE encodeUtf8(text)
      padded == padTo4(bytes, 32)
      whole ==
        Uint32LE(IF mangle = "badMagic" THEN GLB_MAGIC - 103 ELSE GLB_MAGIC)
          \o Uint32LE(2)
          \o Uint32LE(12 + 8 + Len(padded))
          \o Uint32LE(Len(padded) + (IF mangle = "overrun" THEN 4 ELSE 0))
          \o Uint32LE(IF mangle = "binOnly" THEN GLB_BIN_CHUNK ELSE GLB_JSON_CHUNK)
          \o padded
  IN CASE mangle = "empty" -> <<>>
       [] mangle = "cut3" -> SubSeq(whole, 1, 3)
       [] mangle = "cut16" -> SubSeq(whole, 1, 16)
       [] OTHER -> whole

StatsGlb(d) == buildGlbFromJson(JsonStringify(StatsDocument(d)).s, d.mangle)

----------------------------------------------------------------------------
(* summarizeGlbGeometry as a state machine: one input buffer, one call.    *)

GlbIdle ==
  /\ input = NoFault
  /\ glb = <<>>
  /\ parsed = None
  /\ rebuilt = <<>>
  /\ extras = Undefined
  /\ injected = None
  /\ extras2 = Undefined
  /\ injected2 = None
  /\ lenientJson = None
  /\ lenientBin = None

\* No component but the statistics has been used.
OnlyStats ==
  GlbIdle /\ BoundsIdle /\ RetryIdle /\ PolicyIdle /\ MapperIdle /\ BomIdle
    /\ AsmIdle
    /\ TreeIdle
    /\ CadIdle
    /\ LoaderIdle

InitStats ==
  /\ pc = "stats input"
  /\ \E d \in StatsInputs :
       /\ sdoc = d
       /\ sglb = StatsGlb(d)
  /\ stats = None
  /\ OnlyStats

Summarize ==
  /\ pc = "stats input"
  /\ stats' = summarizeGlbGeometry(sglb)
  /\ pc' = "summarized"
  /\ UNCHANGED <<sdoc, sglb, notStatsVars>>

NextStats == Summarize

SpecStats == InitStats /\ [][NextStats]_vars

----------------------------------------------------------------------------
(* Properties of summarizeGlbGeometry (SpecStats) *)

\* The count of the accessor a primitive names; Undefined when there is none.
CountAt(index) ==
  IF index.n + 1 \in DOMAIN AccessorCounts THEN AccessorCounts[index.n + 1]
  ELSE Undefined

\* floor(count / 3) for a positive number, 0 for anything else.
ThirdOf(count) ==
  IF count.t = "num" /\ count.n > 0 THEN count.n \div 3 ELSE 0

ExpectedTriangles(d) ==
  IF d.mode \notin {Undefined, Num(4)} THEN 0
  ELSE IF d.indices # Undefined THEN ThirdOf(CountAt(d.indices))
  ELSE IF d.position # Undefined THEN ThirdOf(CountAt(d.position))
  ELSE 0

RECURSIVE SumExpected(_)
SumExpected(prims) ==
  IF prims = <<>> THEN 0
  ELSE ExpectedTriangles(Head(prims)) + SumExpected(Tail(prims))

\* C9: the triangle total is the sum, over the primitives whose mode is
\* absent or 4, of floor(count / 3), count being the indices accessor's count
\* when the primitive has a numeric indices and the POSITION accessor's
\* otherwise; any other mode adds 0, and an indices accessor whose count is
\* missing, not a number or not positive adds 0 with no fallback to POSITION.
C9_TriangleTotal ==
  (pc = "summarized" /\ sdoc.shape = 0 /\ sdoc.mangle = "none") =>
    /\ stats.ok
    /\ stats.triangles = SumExpected(sdoc.prims)

\* indices -> count 7 adds 2; indices -> count "nope" adds 0 although
\* POSITION -> count 6 would add 2.
C9_Witness ==
  /\ pc = "summarized"
  /\ sdoc.mangle = "none"
  /\ sdoc.prims = << Prim(Undefined, Num(5), Undefined),
                     Prim(Undefined, Num(2), Num(0)) >>
  /\ stats.ok
  /\ stats.triangles = 2

\* C10 as stated: summarizeGlbGeometry never throws; for every input buffer
\* it returns a statistics record.
C10_NeverThrows ==
  pc = "summarized" =>
    /\ stats.ok
    /\ DOMAIN stats = {"ok", "triangles", "meshCount", "nodeCount",
                       "primitiveCount", "nodesWithMeshCount",
                       "primitivesWithPositionCount"}

----------------------------------------------------------------------------
(* src/core/glb-parse.ts: parseGlbBin *)

\* Faulty variant: a chunk that is not a BIN chunk ends the walk.
parseGlbBinFirstChunkOnly(g, offset) ==
  IF offset + GLB_CHUNK_HEADER_LENGTH <= Len(g)
  THEN
    IF offset + GLB_CHUNK_HEADER_LENGTH + GetUint32(g, offset) > Len(g)
    THEN [found |-> FALSE, bytes |-> <<>>]
    ELSE IF GetUint32(g, offset + 4) = GLB_BIN_CHUNK
    THEN [found |-> TRUE,
          bytes |-> Subarray(g, offset + GLB_CHUNK_HEADER_LENGTH,
                      offset + GLB_CHUNK_HEADER_LENGTH + GetUint32(g, offset))]
    ELSE [found |-> FALSE, bytes |-> <<>>]
  ELSE [found |-> FALSE, bytes |-> <<>>]

\* The while loop of parseGlbBin, entered with `offset`: the payload of the
\* first BIN chunk, or null.
RECURSIVE parseGlbBinChunks(_, _)
parseGlbBinChunks(g, offset) ==
  IF offset + GLB_CHUNK_HEADER_LENGTH <= Len(g)
  THEN
    IF offset + GLB_CHUNK_HEADER_LENGTH + GetUint32(g, offset) > Len(g)
    THEN [found |-> FALSE, bytes |-> <<>>]
    ELSE IF GetUint32(g, offset + 4) = GLB_BIN_CHUNK
    THEN [found |-> TRUE,
          bytes |-> Subarray(g, offset + GLB_CHUNK_HEADER_LENGTH,
                      offset + GLB_CHUNK_HEADER_LENGTH + GetUint32(g, offset))]
    ELSE parseGlbBinChunks(g,
           offset + GLB_CHUNK_HEADER_LENGTH + GetUint32(g, offset))
  ELSE [found |-> FALSE, bytes |-> <<>>]

parseGlbBin(g) == parseGlbBinChunks(g, GLB_HEADER_LENGTH)

----------------------------------------------------------------------------
(* The codec, the patcher and the lenient readers on one input buffer *)

\* The lenient readers applied to a buffer the strict parse has seen.
ReadLenient ==
  /\ pc = "parsed"
  /\ lenientJson' = parseGlbJson(glb)
  /\ lenientBin' = parseGlbBin(glb)
  /\ pc' = "lenient"
  /\ UNCHANGED <<input, glb, parsed, rebuilt, extras, injected, extras2,
                 injected2, notGlbVars>>

NextGlb == Parse \/ Build \/ Inject \/ InjectAgain \/ ReadLenient

SpecGlb == InitGlb /\ [][NextGlb]_vars

----------------------------------------------------------------------------
(* src/core/glb-geometry.ts: computeBoundsMeters.  A JS number is          *)
(* [k |-> "fin", n |-> Int], or has k "+inf", "-inf" or "nan" (n is 0).    *)

K_min == <<109, 105, 110>>
K_max == <<109, 97, 120>>
K_type == <<116, 121, 112, 101>>
K_componentType == <<99, 111, 109, 112, 111, 110, 101, 110, 116, 84, 121, 112, 101>>
K_bufferView == <<98, 117, 102, 102, 101, 114, 86, 105, 101, 119>>
K_bufferViews == <<98, 117, 102, 102, 101, 114, 86, 105, 101, 119, 115>>
K_byteOffset == <<98, 121, 116, 101, 79, 102, 102, 115, 101, 116>>
K_byteStride == <<98, 121, 116, 101, 83, 116, 114, 105, 100, 101>>
VEC3 == <<86, 69, 67, 51>>
FLOAT == 5126

Fin(n) == [k |-> "fin", n |-> n]
PosInfinity == [k |-> "+inf", n |-> 0]
NegInfinity == [k |-> "-inf", n |-> 0]
NotANumber == [k |-> "nan", n |-> 0]

\* Number(v) as a JS number.
NumberOf(v) == IF ToNumber(v).nan THEN NotANumber ELSE Fin(ToNumber(v).n)

IsFinite(x) == x.k = "fin"

LessEq(a, b) ==
  \/ a.k = "-inf"
  \/ b.k = "+inf"
  \/ a.k = "fin" /\ b.k = "fin" /\ a.n <= b.n

MathMin(a, b) ==
  IF a.k = "nan" \/ b.k = "nan" THEN NotANumber
  ELSE IF LessEq(a, b) THEN a ELSE b

MathMax(a, b) ==
  IF a.k = "nan" \/ b.k = "nan" THEN NotANumber
  ELSE IF LessEq(a, b) THEN b ELSE a

Pow2(e) == IF e = 0 THEN 1 ELSE 2 ^ e

\* The value of the IEEE 754 binary32 number with the given sign, biased
\* exponent and 23-bit fraction.  Integer values are exact; a fractional
\* part is dropped (the buffers of the model hold integers).
Float32Value(negative, exponent, fraction) ==
  IF exponent = 255
  THEN (IF fraction # 0 THEN NotANumber
        ELSE IF negative THEN NegInfinity ELSE PosInfinity)
  ELSE IF exponent < 127 THEN Fin(0)
  ELSE IF exponent <= 150
  THEN Fin((IF negative THEN -1 ELSE 1)
             * ((8388608 + fraction) \div Pow2(150 - exponent)))
  ELSE Fin((IF negative THEN -1 ELSE 1)
             * ((8388608 + fraction) * Pow2(exponent - 150)))

\* DataView.getFloat32(offset, true) on an offset inside the view
GetFloat32(bytes, offset) ==
  Float32Value(bytes[offset + 4] >= 128,
               (bytes[offset + 4] % 128) * 2 + (bytes[offset + 3] \div 128),
               (bytes[offset + 3] % 128) * 65536 + bytes[offset + 2] * 256
                 + bytes[offset + 1])

\* prim?.attributes?.POSITION of every primitive, in order, each number once
\* (a Set in insertion order); a TypeError when a mesh's primitives has no
\* forEach.
AddToSet(set, idx) ==
  IF TypeofNumber(idx) /\ \A i \in 1..Len(set) : set[i] # idx
  THEN Append(set, idx) ELSE set

RECURSIVE collectFromPrimitives(_, _, _)
collectFromPrimitives(prims, i, set) ==
  IF i > Len(prims) THEN set
  ELSE collectFromPrimitives(prims, i + 1,
         AddToSet(set, posAccessorIndexOf(prims[i])))

RECURSIVE positionAccessorIndices(_, _, _)
positionAccessorIndices(meshes, i, set) ==
  IF i > Len(meshes) THEN [ok |-> TRUE, set |-> set]
  ELSE IF IsNullish(OptProp(meshes[i], K_primitives))
  THEN positionAccessorIndices(meshes, i + 1, set)
  ELSE IF IsArray(OptProp(meshes[i], K_primitives))
  THEN positionAccessorIndices(meshes, i + 1,
         collectFromPrimitives(OptProp(meshes[i], K_primitives).a, 1, set))
  ELSE Throw("TypeError", "(intermediate value).forEach is not a function")

\* The running bounds: mins, maxs and usedAny.
NoBounds ==
  [ok |-> TRUE, usedAny |-> FALSE,
   mins |-> <<PosInfinity, PosInfinity, PosInfinity>>,
   maxs |-> <<NegInfinity, NegInfinity, NegInfinity>>]

\* The for loop of updateFromMinMax from component i (0-based) on: the
\* components before a non-finite one are already folded when it returns
\* false.
RECURSIVE updateFromMinMaxLoop(_, _, _, _)
updateFromMinMaxLoop(min, max, i, b) ==
  IF i = 3 THEN [b EXCEPT !.usedAny = TRUE]
  ELSE IF ~IsFinite(NumberOf(min[i + 1])) \/ ~IsFinite(NumberOf(max[i + 1]))
  THEN b
  ELSE updateFromMinMaxLoop(min, max, i + 1,
         [b EXCEPT !.mins[i + 1] = MathMin(@, NumberOf(min[i + 1])),
                   !.maxs[i + 1] = MathMax(@, NumberOf(max[i + 1]))])

\* updateFromMinMax(min, max) applied to the running bounds; usedAny is set
\* when it returns true and kept otherwise.
updateFromMinMax(min, max, b) ==
  IF ~IsArray(min) \/ ~IsArray(max) THEN b
  ELSE IF Len(min.a) < 3 \/ Len(max.a) < 3 THEN b
  ELSE updateFromMinMaxLoop(min.a, max.a, 0, b)

\* for (const accessorIndex of positionAccessorIndices): the min/max path
RECURSIVE foldMinMax(_, _, _, _)
foldMinMax(accessors, set, i, b) ==
  IF i > Len(set) THEN b
  ELSE IF ~Truthy(ArrayAt(accessors, set[i]))
  THEN foldMinMax(accessors, set, i + 1, b)
  ELSE foldMinMax(accessors, set, i + 1,
         updateFromMinMax(GetProp(ArrayAt(accessors, set[i]), K_min),
                          GetProp(ArrayAt(accessors, set[i]), K_max), b))

\* v ?? d
OrDefault(v, d) == IF IsNullish(v) THEN d ELSE v

\* start + i * stride
OffsetOf(start, stride, i) ==
  IF start.nan \/ stride.nan THEN NaN ELSE Finite(start.n + i * stride.n)

foldVertex(b, x, y, z) ==
  [b EXCEPT !.usedAny = TRUE,
            !.mins = <<MathMin(@[1], x), MathMin(@[2], y), MathMin(@[3], z)>>,
            !.maxs = <<MathMax(@[1], x), MathMax(@[2], y), MathMax(@[3], z)>>]

\* The three getFloat32 calls at off, off + 4, off + 8 and the fold.  A NaN
\* offset is read as offset 0; an offset outside the view is a RangeError.
readVertex(bin, off, b) ==
  IF off.nan
  THEN (IF Len(bin) < 4
        THEN Throw("RangeError", "Offset is outside the bounds of the DataView")
        ELSE foldVertex(b, GetFloat32(bin, 0), GetFloat32(bin, 0),
                        GetFloat32(bin, 0)))
  ELSE IF off.n < 0
  THEN Throw("RangeError", "Offset is outside the bounds of the DataView")
  ELSE foldVertex(b, GetFloat32(bin, off.n), GetFloat32(bin, off.n + 4),
                  GetFloat32(bin, off.n + 8))

\* for (let i = 0; i < count; i += 1), entered with i
RECURSIVE readVertices(_, _, _, _, _, _)
readVertices(bin, start, stride, count, i, b) ==
  IF ~b.ok \/ count.nan \/ i >= count.n THEN b
  ELSE IF ~OffsetOf(start, stride, i).nan
            /\ OffsetOf(start, stride, i).n + 12 > Len(bin)
  THEN b
  ELSE readVertices(bin, start, stride, count, i + 1,
                    readVertex(bin, OffsetOf(start, stride, i), b))

AddOffsets(a, c) == IF a.nan \/ c.nan THEN NaN ELSE Finite(a.n + c.n)

\* The body of the fallback loop for one accessor and its bufferView.
readAccessor(bin, accessor, bv, b) ==
  IF ~Truthy(bv) THEN b
  ELSE readVertices(bin,
         AddOffsets(ToNumber(OrDefault(GetProp(bv, K_byteOffset), Num(0))),
                    ToNumber(OrDefault(GetProp(accessor, K_byteOffset), Num(0)))),
         ToNumber(OrDefault(GetProp(bv, K_byteStride), Num(12))),
         ToNumber(OrDefault(GetProp(accessor, K_count), Num(0))),
         0, b)

\* for (const accessorIndex of positionAccessorIndices): the BIN path
RECURSIVE foldBin(_, _, _, _, _, _)
foldBin(bin, accessors, bufferViews, set, i, b) ==
  IF ~b.ok \/ i > Len(set) THEN b
  ELSE IF \/ ~Truthy(ArrayAt(accessors, set[i]))
          \/ GetProp(ArrayAt(accessors, set[i]), K_type) # Str(VEC3)
          \/ GetProp(ArrayAt(accessors, set[i]), K_componentType) # Num(FLOAT)
  THEN foldBin(bin, accessors, bufferViews, set, i + 1, b)
  ELSE foldBin(bin, accessors, bufferViews, set, i + 1,
         readAccessor(bin, ArrayAt(accessors, set[i]),
           ArrayAt(bufferViews,
                   GetProp(ArrayAt(accessors, set[i]), K_bufferView)),
           b))

\* if (!usedAny) { ... }: the BIN path is taken only when no min/max was used.
boundsFallback(g, gltf, set, b) ==
  IF b.usedAny THEN b
  ELSE IF ~parseGlbBin(g).found \/ ~IsArray(GetProp(gltf, K_bufferViews))
  THEN Throw("Error", "Invalid GLB: missing BIN/bufferViews for bounds")
  ELSE foldBin(parseGlbBin(g).bytes, GetProp(gltf, K_accessors).a,
               GetProp(gltf, K_bufferViews).a, set, 1, b)

AllFinite(triple) == \A i \in 1..3 : IsFinite(triple[i])

\* The last check and the returned bounds.
boundsResult(b) ==
  IF ~b.ok THEN b
  ELSE IF ~b.usedAny \/ ~AllFinite(b.mins) \/ ~AllFinite(b.maxs)
  THEN Throw("Error", "Failed to compute bounds")
  ELSE [ok |-> TRUE,
        min |-> [i \in 1..3 |-> b.mins[i].n],
        max |-> [i \in 1..3 |-> b.maxs[i].n]]

boundsOfSet(g, gltf, set) ==
  IF ~set.ok THEN set
  ELSE boundsResult(
         boundsFallback(g, gltf, set.set,
           foldMinMax(GetProp(gltf, K_accessors).a, set.set, 1, NoBounds)))

boundsOfGltf(g, gltf) ==
  IF ~gltf.ok THEN gltf
  ELSE IF \/ ~Truthy(gltf.v)
          \/ ~IsArray(GetProp(gltf.v, K_meshes))
          \/ ~IsArray(GetProp(gltf.v, K_accessors))
  THEN Throw("Error", "Invalid GLB: missing meshes/accessors")
  ELSE boundsOfSet(g, gltf.v,
         positionAccessorIndices(GetProp(gltf.v, K_meshes).a, 1, <<>>))

computeBoundsMeters(g) == boundsOfGltf(g, parseGlbJson(g))

----------------------------------------------------------------------------
(* Inputs of computeBoundsMeters: documents written the way the unit tests *)
(* write theirs, one primitive per accessor, with or without a BIN chunk   *)
(* of three vertices.                                                      *)

MaxAccessors == 2

\* The vertices of the BIN chunk, in order.
BinVertices == << <<-2, -1, 0>>, <<3, 4, 5>>, <<7, -8, 9>> >>

\* floor(log2(n)) for 1 <= n < 256
Log2(n) == CHOOSE e \in 0..7 : Pow2(e) <= n /\ n < Pow2(e + 1)

Abs(n) == IF n < 0 THEN -n ELSE n

\* The four bytes one element of a Float32Array holds for a small integer.
Float32Bytes(n) ==
  IF n = 0 THEN <<0, 0, 0, 0>>
  ELSE LET e == Log2(Abs(n))
           exponent == 127 + e
           fraction == (Abs(n) - Pow2(e)) * Pow2(23 - e)
       IN << fraction % 256,
             (fraction \div 256) % 256,
             (exponent % 2) * 128 + (fraction \div 65536),
             (IF n < 0 THEN 128 ELSE 0) + (exponent \div 2) >>

BinBytes ==
  Concat([i \in 1..Len(BinVertices) |->
            Float32Bytes(BinVertices[i][1]) \o Float32Bytes(BinVertices[i][2])
              \o Float32Bytes(BinVertices[i][3])])

\* One row per accessor: its JSON value; whether its min/max is valid and, if
\* so, the first three components; the vertices (by position in BinVertices)
\* a walk with stride 12 and with stride 24 reads for it.
BoundsAccessors ==
  <<
  [ \* {min:[0,0,0], max:[1,1,1]}
    value |-> Obj(<<KV(K_min, Arr(<<Num(0), Num(0), Num(0)>>)), KV(K_max,
      Arr(<<Num(1), Num(1), Num(1)>>))>>),
    valid |-> TRUE,
    min |-> <<0, 0, 0>>, max |-> <<1, 1, 1>>,
    reads12 |-> {}, reads24 |-> {} ],
  [ \* {min:[-5,2,-1], max:[4,3,8]}
    value |-> Obj(<<KV(K_min, Arr(<<Num(-5), Num(2), Num(-1)>>)), KV(K_max,
      Arr(<<Num(4), Num(3), Num(8)>>))>>),
    valid |-> TRUE,
    min |-> <<-5, 2, -1>>, max |-> <<4, 3, 8>>,
    reads12 |-> {}, reads24 |-> {} ],
  [ \* {min:[0,0], max:[1,1,1]}
    value |-> Obj(<<KV(K_min, Arr(<<Num(0), Num(0)>>)), KV(K_max,
      Arr(<<Num(1), Num(1), Num(1)>>))>>),
    valid |-> FALSE,
    min |-> <<0, 0, 0>>, max |-> <<0, 0, 0>>,
    reads12 |-> {}, reads24 |-> {} ],
  [ \* {min:[-9,"NaN",0], max:[9,1,1]}
    value |-> Obj(<<KV(K_min, Arr(<<Num(-9), Str(<<78, 97, 78>>), Num(0)>>)),
      KV(K_max, Arr(<<Num(9), Num(1), Num(1)>>))>>),
    valid |-> FALSE,
    min |-> <<0, 0, 0>>, max |-> <<0, 0, 0>>,
    reads12 |-> {}, reads24 |-> {} ],
  [ \* {}
    value |-> Obj(<<>>),
    valid |-> FALSE,
    min |-> <<0, 0, 0>>, max |-> <<0, 0, 0>>,
    reads12 |-> {}, reads24 |-> {} ],
  [ \* {bufferView:0, componentType:5126, type:"VEC3", count:2}
    value |-> Obj(<<KV(K_bufferView, Num(0)), KV(K_componentType, Num(FLOAT)),
      KV(K_type, Str(VEC3)), KV(K_count, Num(2))>>),
    valid |-> FALSE,
    min |-> <<0, 0, 0>>, max |-> <<0, 0, 0>>,
    reads12 |-> {1, 2}, reads24 |-> {1, 3} ],
  [ \* {bufferView:0, componentType:5126, type:"VEC3", count:3, byteOffset:12}
    value |-> Obj(<<KV(K_bufferView, Num(0)), KV(K_componentType, Num(FLOAT)),
      KV(K_type, Str(VEC3)), KV(K_count, Num(3)), KV(K_byteOffset,
      Num(12))>>),
    valid |-> FALSE,
    min |-> <<0, 0, 0>>, max |-> <<0, 0, 0>>,
    reads12 |-> {2, 3}, reads24 |-> {2} ],
  [ \* {bufferView:0, componentType:5126, type:"VEC3", count:2,
    \*  min:[-9,"NaN",0], max:[9,1,1]}
    value |-> Obj(<<KV(K_bufferView, Num(0)), KV(K_componentType, Num(FLOAT)),
      KV(K_type, Str(VEC3)), KV(K_count, Num(2)), KV(K_min, Arr(<<Num(-9),
      Str(<<78, 97, 78>>), Num(0)>>)), KV(K_max, Arr(<<Num(9), Num(1),
      Num(1)>>))>>),
    valid |-> FALSE,
    min |-> <<0, 0, 0>>, max |-> <<0, 0, 0>>,
    reads12 |-> {1, 2}, reads24 |-> {1, 3} ],
  [ \* {bufferView:0, componentType:5123, type:"VEC3", count:2}
    value |-> Obj(<<KV(K_bufferView, Num(0)), KV(K_componentType, Num(5123)),
      KV(K_type, Str(VEC3)), KV(K_count, Num(2))>>),
    valid |-> FALSE,
    min |-> <<0, 0, 0>>, max |-> <<0, 0, 0>>,
    reads12 |-> {}, reads24 |-> {} ],
  [ \* {min:[1,2,3,4], max:[5,6,7,8], bufferView:0, componentType:5126,
    \*  type:"VEC3", count:1}
    value |-> Obj(<<KV(K_min, Arr(<<Num(1), Num(2), Num(3), Num(4)>>)),
      KV(K_max, Arr(<<Num(5), Num(6), Num(7), Num(8)>>)), KV(K_bufferView,
      Num(0)), KV(K_componentType, Num(FLOAT)), KV(K_type, Str(VEC3)),
      KV(K_count, Num(1))>>),
    valid |-> TRUE,
    min |-> <<1, 2, 3>>, max |-> <<5, 6, 7>>,
    reads12 |-> {}, reads24 |-> {} ],
  [ \* {min:[5,0,0], max:[1,1,1]}
    value |-> Obj(<<KV(K_min, Arr(<<Num(5), Num(0), Num(0)>>)), KV(K_max,
      Arr(<<Num(1), Num(1), Num(1)>>))>>),
    valid |-> TRUE,
    min |-> <<5, 0, 0>>, max |-> <<1, 1, 1>>,
    reads12 |-> {}, reads24 |-> {} ]
  >>

BoundsInputs ==
  { [accessors |-> a, stride |-> s, bin |-> b] :
      a \in UNION { [1..n -> 1..Len(BoundsAccessors)] : n \in 1..MaxAccessors },
      s \in {12, 24}, b \in BOOLEAN }

\* bufferViews[0]; byteStride is left out when it is 12.
BufferViewValue(stride) ==
  Obj(<< KV(<<98, 117, 102, 102, 101, 114>>, Num(0)), KV(K_byteOffset, Num(0)),
         KV(<<98, 121, 116, 101, 76, 101, 110, 103, 116, 104>>, Num(Len(BinBytes))) >>
      \o (IF stride = 12 THEN <<>> ELSE <<KV(K_byteStride, Num(stride))>>))

BoundsDocument(d) ==
  Obj(<< KV(K_bufferViews, Arr(<<BufferViewValue(d.stride)>>)),
         KV(K_accessors,
            Arr([i \in 1..Len(d.accessors) |->
                   BoundsAccessors[d.accessors[i]].value])),
         KV(K_meshes,
            Arr(<<Obj(<<KV(K_primitives,
               Arr([i \in 1..Len(d.accessors) |->
                      Obj(<<KV(K_attributes,
                               Obj(<<KV(K_POSITION, Num(i - 1))>>))>>)]))>>)>>)) >>)

\* The test's patch: a BIN chunk appended, the header length rewritten.
appendBinChunk(g, bin) ==
  SubSeq(g, 1, 8) \o Uint32LE(Len(g) + 8 + Len(bin)) \o SubSeq(g, 13, Len(g))
    \o Uint32LE(Len(bin)) \o Uint32LE(GLB_BIN_CHUNK) \o bin

BoundsGlb(d) ==
  IF d.bin
  THEN appendBinChunk(
         buildGlbFromJson(JsonStringify(BoundsDocument(d)).s, "none"), BinBytes)
  ELSE buildGlbFromJson(JsonStringify(BoundsDocument(d)).s, "none")

----------------------------------------------------------------------------
(* computeBoundsMeters as a state machine: one input buffer, one call.     *)

\* No component but the bounds has been used.
OnlyBounds ==
  GlbIdle /\ StatsIdle /\ RetryIdle /\ PolicyIdle /\ MapperIdle /\ BomIdle
    /\ AsmIdle
    /\ TreeIdle
    /\ CadIdle
    /\ LoaderIdle

InitBounds ==
  /\ pc = "bounds input"
  /\ \E d \in BoundsInputs :
       /\ bdoc = d
       /\ bglb = BoundsGlb(d)
  /\ bounds = None
  /\ OnlyBounds

ComputeBounds ==
  /\ pc = "bounds input"
  /\ bounds' = computeBoundsMeters(bglb)
  /\ pc' = "bounds"
  /\ UNCHANGED <<bdoc, bglb, notBoundsVars>>

NextBounds == ComputeBounds

SpecBounds == InitBounds /\ [][NextBounds]_vars

----------------------------------------------------------------------------
(* Properties of computeBoundsMeters (SpecBounds) *)

MinOf(S) == CHOOSE x \in S : \A y \in S : x <= y
MaxOf(S) == CHOOSE x \in S : \A y \in S : y <= x

\* The accessors of a document whose min/max is valid.
ValidAccessors(d) ==
  { i \in 1..Len(d.accessors) : BoundsAccessors[d.accessors[i]].valid }

\* The vertices the BIN walk reads for the accessors of a document.
VerticesRead(d) ==
  UNION { IF d.stride = 12 THEN BoundsAccessors[d.accessors[i]].reads12
          ELSE BoundsAccessors[d.accessors[i]].reads24 :
            i \in 1..Len(d.accessors) }

\* C11 as stated: when some POSITION accessor carries valid min/max, the
\* result is the component-wise minimum of the valid accessors' min and the
\* component-wise maximum of their max; an accessor whose min/max is missing
\* or invalid adds nothing to any axis, and the BIN chunk plays no part.
C11_BoundsFromMinMax ==
  (pc = "bounds" /\ ValidAccessors(bdoc) # {}) =>
    /\ bounds.ok
    /\ \A k \in 1..3 :
         /\ bounds.min[k] =
              MinOf({ BoundsAccessors[bdoc.accessors[i]].min[k] :
                        i \in ValidAccessors(bdoc) })
         /\ bounds.max[k] =
              MaxOf({ BoundsAccessors[bdoc.accessors[i]].max[k] :
                        i \in ValidAccessors(bdoc) })

\* C12 as stated: when no POSITION accessor supplies usable min/max, the
\* result is the component-wise min/max of exactly the vertices read from the
\* BIN chunk for the VEC3 / 5126 accessors (count vertices from the offset,
\* with the bufferView's stride, 12 when absent, ending without error where
\* a read would pass the end of the chunk), and the call fails with "Failed
\* to compute bounds" only when no vertex was read.
C12_BoundsFromBin ==
  (pc = "bounds" /\ ValidAccessors(bdoc) = {} /\ bdoc.bin) =>
    IF VerticesRead(bdoc) = {}
    THEN Fails(bounds, "Failed to compute bounds")
    ELSE /\ bounds.ok
         /\ \A k \in 1..3 :
              /\ bounds.min[k] =
                   MinOf({ BinVertices[v][k] : v \in VerticesRead(bdoc) })
              /\ bounds.max[k] =
                   MaxOf({ BinVertices[v][k] : v \in VerticesRead(bdoc) })

----------------------------------------------------------------------------
(* The triangulation policy (isTriangleExplosion, getTriangulationForAttempt)*)
(* Deflections are in thousandths: 0.5 rad is 500.                         *)

MAX_TRIANGLES == 5000000
MAX_PRIMITIVES == 50000

TRIANGLE_EXPLOSION_THRESHOLDS ==
  [MAX_TRIANGLES |-> MAX_TRIANGLES, MAX_PRIMITIVES |-> MAX_PRIMITIVES]

\* Faulty variant: a count equal to its threshold is an explosion.
isTriangleExplosionAtThreshold(summary, thresholds) ==
  \/ summary.triangles >= thresholds.MAX_TRIANGLES
  \/ summary.primitiveCount >= thresholds.MAX_PRIMITIVES

isTriangleExplosion(summary, thresholds) ==
  \/ summary.triangles > thresholds.MAX_TRIANGLES
  \/ summary.primitiveCount > thresholds.MAX_PRIMITIVES

\* x * 1.4 and x * 1.8 for x in thousandths (exact for multiples of 5)
Times14(x) == (x * 14) \div 10
Times18(x) == (x * 18) \div 10

\* Faulty variant: each attempt coarsens the one before.
RECURSIVE getTriangulationCompounding(_, _)
getTriangulationCompounding(in, attemptIndex) ==
  IF attemptIndex <= 0
  THEN [linearDeflection |-> in.linearDeflection0,
        angularDeflection |-> in.angularDeflection0,
        relative |-> FALSE, parallel |-> in.parallel]
  ELSE LET prev == getTriangulationCompounding(in, attemptIndex - 1) IN
       [linearDeflection |-> prev.linearDeflection * 2,
        angularDeflection |-> Min(1000, Times14(prev.angularDeflection)),
        relative |-> FALSE, parallel |-> in.parallel]

getTriangulationForAttempt(in, attemptIndex) ==
  IF attemptIndex <= 0
  THEN [linearDeflection |-> in.linearDeflection0,
        angularDeflection |-> in.angularDeflection0,
        relative |-> FALSE, parallel |-> in.parallel]
  ELSE IF attemptIndex = 1
  THEN [linearDeflection |-> in.linearDeflection0 * 2,
        angularDeflection |-> Min(1000, Times14(in.angularDeflection0)),
        relative |-> FALSE, parallel |-> in.parallel]
  ELSE [linearDeflection |-> in.linearDeflection0 * 4,
        angularDeflection |-> Min(1200, Times18(in.angularDeflection0)),
        relative |-> FALSE, parallel |-> in.parallel]

----------------------------------------------------------------------------
(* convertDocumentToGlbWithRetries.  The two kernel calls of an attempt are  *)
(* the steps of the process; what the kernel writes is chosen by the         *)
(* environment.                                                              *)

Bytes(b) == [t |-> "bytes", bytes |-> b]

\* v ?? default
OrElse(v, default) == IF v = Undefined \/ v = Null THEN default ELSE v

triangulateOriginalOf(o) ==
  OrElse(o.triangulate,
         [linearDeflection |-> Undefined, angularDeflection |-> Undefined,
          relative |-> Undefined, parallel |-> Undefined])

linearDeflection0Of(o) ==
  OrElse(triangulateOriginalOf(o).linearDeflection, Num(1000)).n

angularDeflection0Of(o) ==
  OrElse(triangulateOriginalOf(o).angularDeflection, Num(500)).n

\* Faulty variant: the attempts option is taken as given.
attemptsUnclamped(o) == OrElse(o.attempts, Num(3)).n

attemptsOf(o) ==
  LET n == OrElse(o.attempts, Num(3)).n IN IF n > 1 THEN n ELSE 1

thresholdsOf(o) ==
  OrElse(o.triangleExplosionThresholds, TRIANGLE_EXPLOSION_THRESHOLDS)

scheduleOf(o, attemptIndex) ==
  getTriangulationForAttempt(
    [linearDeflection0 |-> linearDeflection0Of(o),
     angularDeflection0 |-> angularDeflection0Of(o),
     parallel |-> triangulateOriginalOf(o).parallel],
    attemptIndex)

relativeWarning(o) ==
  IF triangulateOriginalOf(o).relative = Bool(TRUE)
  THEN << [code |-> "mesh/relative-forced-false"] >>
  ELSE << >>

explosionWarning(code, summary) ==
  [code |-> code, attempt |-> attempt, thresholds |-> thresholdsOf(options),
   meshStats |-> summary, triangulateUsed |-> triangulateUsed]

\* Faulty variant: every exploded attempt, the last one too, is reported as a
\* retry.
warningCodeAlwaysRetry(attemptIndex, attempts) == "mesh/triangle-explosion-retry"

warningCode(attemptIndex, attempts) ==
  IF attemptIndex < attempts - 1
  THEN "mesh/triangle-explosion-retry"
  ELSE "mesh/triangle-explosion-unresolved"

MaxAttempts == 4

K_version == <<118, 101, 114, 115, 105, 111, 110>>

\* buildGlbWithTriangleCount of the unit tests, with `primitives` primitives
\* that each index accessor 0.
buildGlbWithTriangleCount(triangleCount, primitives) ==
  buildGlbFromJson(
    JsonStringify(
      Obj(<< KV(K_asset, Obj(<<KV(K_version, Str(<<50, 46, 48>>))>>)),
             KV(K_accessors, Arr(<<Obj(<<KV(K_count, Num(triangleCount * 3))>>)>>)),
             KV(K_meshes,
                Arr(<<Obj(<<KV(K_primitives,
                               Arr([i \in 1..primitives |->
                                      Obj(<<KV(K_indices, Num(0))>>)]))>>)>>)),
             KV(K_nodes, Arr(<<>>)) >>)).s,
    "none")

\* buildMinimalGlb of the unit tests: one node 'Part [0:1]' with a mesh of one
\* primitive whose POSITION accessor declares min [0,0,0] and max [1,1,1].
buildMinimalGlb ==
  buildGlbFromJson(
    JsonStringify(
      Obj(<< KV(K_asset, Obj(<<KV(K_version, Str(<<50, 46, 48>>))>>)),
             KV(K_accessors,
                Arr(<<Obj(<<KV(K_min, Arr(<<Num(0), Num(0), Num(0)>>)),
                            KV(K_max, Arr(<<Num(1), Num(1), Num(1)>>)),
                            KV(K_count, Num(3))>>)>>)),
             KV(K_meshes,
                Arr(<<Obj(<<KV(K_primitives,
                               Arr(<<Obj(<<KV(K_attributes,
                                      Obj(<<KV(K_POSITION, Num(0))>>))>>)>>))>>)>>)),
             KV(K_nodes,
                Arr(<<Obj(<<KV(<<110, 97, 109, 101>>,
                               Str(<<80, 97, 114, 116, 32, 91, 48, 58, 49, 93>>)),
                            KV(K_mesh, Num(0))>>)>>)) >>)).s,
    "none")

\* What converter.writeBuffer may return: a GLB of 10 triangles, of exactly
\* MAX_TRIANGLES, of one more, of two primitives of 10 triangles, the minimal
\* GLB with a named node and declared bounds, a buffer that is no GLB, or
\* another format.
KernelOutputs ==
  {"safe", "atThreshold", "exploded", "twoPrimitives", "minimal", "truncated",
   "otherFormat"}

KernelResult(k) ==
  CASE k = "safe" ->
         [outputFormat |-> "glb", glb |-> buildGlbWithTriangleCount(10, 1)]
    [] k = "atThreshold" ->
         [outputFormat |-> "glb",
          glb |-> buildGlbWithTriangleCount(MAX_TRIANGLES, 1)]
    [] k = "exploded" ->
         [outputFormat |-> "glb",
          glb |-> buildGlbWithTriangleCount(MAX_TRIANGLES + 1, 1)]
    [] k = "twoPrimitives" ->
         [outputFormat |-> "glb", glb |-> buildGlbWithTriangleCount(10, 2)]
    [] k = "minimal" -> [outputFormat |-> "glb", glb |-> buildMinimalGlb]
    [] k = "truncated" ->
         [outputFormat |-> "glb", glb |-> <<103, 108, 84>>]
    [] OTHER -> [outputFormat |-> "obj", glb |-> <<>>]

\* options.triangulate: absent, deflections that reach both caps, or a
\* request for relative deflection.
TriangulateOptions ==
  { Undefined,
    [linearDeflection |-> Num(2000), angularDeflection |-> Num(800),
     relative |-> Undefined, parallel |-> Bool(TRUE)],
    [linearDeflection |-> Undefined, angularDeflection |-> Undefined,
     relative |-> Bool(TRUE), parallel |-> Undefined] }

\* options.triangleExplosionThresholds: absent, or thresholds that the
\* two-primitive GLB exceeds by its primitives alone.
ThresholdOptions ==
  { Undefined, [MAX_TRIANGLES |-> 20, MAX_PRIMITIVES |-> 1] }

AttemptsOptions == {Undefined} \cup {Num(n) : n \in -1..MaxAttempts}

RetryOptions ==
  [attempts : AttemptsOptions, triangulate : TriangulateOptions,
   triangleExplosionThresholds : ThresholdOptions]

OnlyRetry ==
  GlbIdle /\ StatsIdle /\ BoundsIdle /\ PolicyIdle /\ MapperIdle /\ BomIdle
    /\ AsmIdle
    /\ TreeIdle
    /\ CadIdle
    /\ LoaderIdle

InitRetry ==
  /\ pc = "retry input"
  /\ options \in RetryOptions
  /\ attempt = 0
  /\ triangulateUsed = Null
  /\ kernelCalls = <<>>
  /\ outGlb = Null
  /\ meshStats = Null
  /\ conversionWarnings = <<>>
  /\ conversion = None
  /\ OnlyRetry

Enter ==
  /\ pc = "retry input"
  /\ conversionWarnings' = relativeWarning(options)
  /\ pc' = "loop"
  /\ UNCHANGED <<options, attempt, triangulateUsed, kernelCalls, outGlb,
                 meshStats, conversion, notRetryVars>>

\* for (attempt < attempts): getTriangulationForAttempt, converter.triangulate
Triangulate ==
  /\ pc = "loop"
  /\ attempt < attemptsOf(options)
  /\ triangulateUsed' = scheduleOf(options, attempt)
  /\ kernelCalls' =
       Append(kernelCalls, [op |-> "triangulate", with |-> triangulateUsed'])
  /\ pc' = "write"
  /\ UNCHANGED <<options, attempt, outGlb, meshStats, conversionWarnings,
                 conversion, notRetryVars>>

\* The rest of the loop body once writeBuffer has returned `result`.
afterWrite(result, summary) ==
  IF result.outputFormat # "glb"
  THEN /\ conversion' = Throw("Error", "Failed to generate GLB output.")
       /\ pc' = "done"
       /\ UNCHANGED <<attempt, outGlb, meshStats, conversionWarnings>>
  ELSE IF ~summary.ok
  THEN /\ conversion' = summary
       /\ outGlb' = Bytes(result.glb)
       /\ pc' = "done"
       /\ UNCHANGED <<attempt, meshStats, conversionWarnings>>
  ELSE IF ~isTriangleExplosion(summary, thresholdsOf(options))
  THEN /\ outGlb' = Bytes(result.glb)
       /\ meshStats' = summary
       /\ pc' = "after loop"
       /\ UNCHANGED <<attempt, conversionWarnings, conversion>>
  ELSE /\ outGlb' = Bytes(result.glb)
       /\ meshStats' = summary
       /\ conversionWarnings' =
            Append(conversionWarnings,
                   explosionWarning(warningCode(attempt, attemptsOf(options)),
                                    summary))
       /\ attempt' = attempt + 1
       /\ pc' = "loop"
       /\ UNCHANGED conversion

WriteBuffer ==
  /\ pc = "write"
  /\ \E k \in KernelOutputs :
       /\ kernelCalls' =
            Append(kernelCalls, [op |-> "writeBuffer", result |-> KernelResult(k)])
       /\ afterWrite(KernelResult(k),
                     IF KernelResult(k).outputFormat = "glb"
                     THEN summarizeGlbGeometry(KernelResult(k).glb)
                     ELSE None)
  /\ UNCHANGED <<options, triangulateUsed, notRetryVars>>

\* After the loop: the last check and the return.
Return ==
  /\ \/ pc = "after loop"
     \/ pc = "loop" /\ ~(attempt < attemptsOf(options))
  /\ conversion' =
       IF outGlb = Null \/ meshStats = Null \/ triangulateUsed = Null
       THEN Throw("Error", "Failed to generate GLB output.")
       ELSE [ok |-> TRUE, glb |-> outGlb.bytes, meshStats |-> meshStats,
             triangulateUsed |-> triangulateUsed,
             conversionWarnings |-> conversionWarnings]
  /\ pc' = "done"
  /\ UNCHANGED <<options, attempt, triangulateUsed, kernelCalls, outGlb,
                 meshStats, conversionWarnings, notRetryVars>>

NextRetry == Enter \/ Triangulate \/ WriteBuffer \/ Return

SpecRetry == InitRetry /\ [][NextRetry]_vars

----------------------------------------------------------------------------
(* Properties of convertDocumentToGlbWithRetries (SpecRetry) *)

\* The schedule of attempt j as the specification words it, in thousandths.
ExpectedSchedule(lin0, ang0, parallel, j) ==
  [linearDeflection |-> IF j <= 0 THEN lin0 ELSE IF j = 1 THEN 2 * lin0 ELSE 4 * lin0,
   angularDeflection |->
     IF j <= 0 THEN ang0
     ELSE IF j = 1 THEN (IF 7 * ang0 > 5000 THEN 1000 ELSE (7 * ang0) \div 5)
     ELSE (IF 9 * ang0 > 6000 THEN 1200 ELSE (9 * ang0) \div 5),
   relative |-> FALSE,
   parallel |-> parallel]

BaseLinear(o) ==
  IF o.triangulate = Undefined \/ o.triangulate.linearDeflection = Undefined
  THEN 1000 ELSE o.triangulate.linearDeflection.n

BaseAngular(o) ==
  IF o.triangulate = Undefined \/ o.triangulate.angularDeflection = Undefined
  THEN 500 ELSE o.triangulate.angularDeflection.n

BaseParallel(o) ==
  IF o.triangulate = Undefined THEN Undefined ELSE o.triangulate.parallel

PermittedAttempts(o) ==
  IF o.attempts = Undefined THEN 3
  ELSE IF o.attempts.n < 1 THEN 1 ELSE o.attempts.n

LimitTriangles(o) ==
  IF o.triangleExplosionThresholds = Undefined THEN 5000000
  ELSE o.triangleExplosionThresholds.MAX_TRIANGLES

LimitPrimitives(o) ==
  IF o.triangleExplosionThresholds = Undefined THEN 50000
  ELSE o.triangleExplosionThresholds.MAX_PRIMITIVES

Exceeds(summary, o) ==
  \/ summary.triangles > LimitTriangles(o)
  \/ summary.primitiveCount > LimitPrimitives(o)

\* The kernel write of call i returned a GLB the statistics can be read from.
\* The statistics of each output the kernel model can write, computed once.
SummaryOfOutput ==
  [k \in KernelOutputs |-> summarizeGlbGeometry(KernelResult(k).glb)]

ResultOfOutput == [k \in KernelOutputs |-> KernelResult(k)]

OutputOfCall(i) ==
  CHOOSE k \in KernelOutputs : ResultOfOutput[k] = kernelCalls[i].result

WroteGlb(i) ==
  /\ kernelCalls[i].result.outputFormat = "glb"
  /\ SummaryOfOutput[OutputOfCall(i)].ok

StatsOfCall(i) == SummaryOfOutput[OutputOfCall(i)]

AttemptsPerformed == (Len(kernelCalls) + 1) \div 2

\* C13: the attempts run in index order 0, 1, 2, ..., each one kernel
\* triangulate call with that attempt's schedule followed by one kernel write
\* call; no call follows a write whose statistics are not exploded (a count
\* equal to its threshold is not exploded); and at most max(1, attempts)
\* attempts are performed, 3 when attempts is not given.
C13_AttemptsInOrder ==
  /\ \A i \in 1..Len(kernelCalls) :
       IF i % 2 = 1
       THEN /\ kernelCalls[i].op = "triangulate"
            /\ kernelCalls[i].with =
                 ExpectedSchedule(BaseLinear(options), BaseAngular(options),
                                  BaseParallel(options), (i - 1) \div 2)
       ELSE /\ kernelCalls[i].op = "writeBuffer"
            /\ (WroteGlb(i) /\ ~Exceeds(StatsOfCall(i), options))
                 => i = Len(kernelCalls)
  /\ AttemptsPerformed <= PermittedAttempts(options)
  /\ (pc = "done" /\ conversion.ok /\ Exceeds(conversion.meshStats, options))
       => AttemptsPerformed = PermittedAttempts(options)

\* Two exploded attempts, then a third whose triangle count equals
\* MAX_TRIANGLES ends the default three attempts.
C13_Witness ==
  /\ pc = "done"
  /\ options.attempts = Undefined
  /\ conversion.ok
  /\ Len(kernelCalls) = 6
  /\ conversion.meshStats.triangles = MAX_TRIANGLES
  /\ Len(conversion.conversionWarnings) >= 2

IsExplosionWarning(w) == w.code # "mesh/relative-forced-false"

ExplosionWarnings(ws) == SelectSeq(ws, IsExplosionWarning)

\* The write calls whose result was measured and found exploded.
IsExplodedWrite(i) ==
  /\ i % 2 = 0
  /\ i <= Len(kernelCalls)
  /\ WroteGlb(i)
  /\ Exceeds(StatsOfCall(i), options)

ExplodedWrites == { i \in 1..Len(kernelCalls) : IsExplodedWrite(i) }

\* C14: every exploded attempt appends exactly one warning and the others
\* append none; the warning of an exploded attempt is
\* mesh/triangle-explosion-retry unless the attempt is the last permitted one,
\* whose warning is mesh/triangle-explosion-unresolved; a run whose first
\* non-exploded result is attempt k returns exactly k retry warnings in
\* attempt order and no unresolved warning.
C14_WarningPerExplodedAttempt ==
  LET ws == ExplosionWarnings(conversionWarnings) IN
  /\ pc # "write" => Len(ws) = Cardinality(ExplodedWrites)
  /\ \A m \in 1..Len(ws) :
       /\ IsExplodedWrite(2 * m)
       /\ ws[m].attempt = m - 1
       /\ ws[m].code =
            IF m < PermittedAttempts(options)
            THEN "mesh/triangle-explosion-retry"
            ELSE "mesh/triangle-explosion-unresolved"
  /\ (pc = "done" /\ conversion.ok /\ ~Exceeds(conversion.meshStats, options))
       => LET rs == ExplosionWarnings(conversion.conversionWarnings) IN
          /\ Len(rs) = AttemptsPerformed - 1
          /\ \A m \in 1..Len(rs) :
               /\ rs[m].code = "mesh/triangle-explosion-retry"
               /\ rs[m].attempt = m - 1

\* The run of the unit test: 5,000,001 triangles, then 10; one retry warning.
C14_Witness ==
  /\ pc = "done"
  /\ conversion.ok
  /\ Len(kernelCalls) = 4
  /\ StatsOfCall(2).triangles = MAX_TRIANGLES + 1
  /\ conversion.meshStats.triangles = 10
  /\ Len(ExplosionWarnings(conversion.conversionWarnings)) = 1
  /\ Len(conversion.conversionWarnings) = 2

HasUnresolved(ws) ==
  \E m \in 1..Len(ws) : ws[m].code = "mesh/triangle-explosion-unresolved"

EveryWriteGaveGlb ==
  \A i \in 1..Len(kernelCalls) : i % 2 = 0 => WroteGlb(i)

\* C15: provided every kernel write returned a GLB, the conversion does not
\* throw, and it comes to its end (until then a step can be taken, and every
\* step leaves fewer steps to take); what it returns is the glb,
\* the statistics and the schedule of the last attempt performed; when every
\* permitted attempt was exploded the result carries a
\* mesh/triangle-explosion-unresolved warning, and a result carries that
\* warning only if its statistics exceed the thresholds.
ReturnsLastAttempt ==
  (pc = "done" /\ EveryWriteGaveGlb) =>
       /\ conversion.ok
       /\ Len(kernelCalls) >= 2
       /\ conversion.glb = kernelCalls[Len(kernelCalls)].result.glb
       /\ conversion.meshStats = StatsOfCall(Len(kernelCalls))
       /\ conversion.triangulateUsed = kernelCalls[Len(kernelCalls) - 1].with
       /\ (Cardinality(ExplodedWrites) = PermittedAttempts(options))
            => HasUnresolved(conversion.conversionWarnings)
       /\ HasUnresolved(conversion.conversionWarnings)
            => Exceeds(conversion.meshStats, options)

\* How many steps the conversion has left at most.
StepsLeft ==
  CASE pc = "retry input" -> 2 * PermittedAttempts(options) + 2
    [] pc = "loop" -> 2 * (PermittedAttempts(options) - attempt) + 1
    [] pc = "write" -> 2 * (PermittedAttempts(options) - attempt)
    [] pc = "after loop" -> 1
    [] OTHER -> 0

\* Some step of the conversion can be taken.
CanStep ==
  \/ pc \in {"retry input", "write", "after loop"}
  \/ pc = "loop" /\ attempt <= PermittedAttempts(options)

----------------------------------------------------------------------------
(* getTriangulationForAttempt on its own (SpecPolicy) *)

MaxAttemptIndex == 4

\* Base deflections in thousandths; the angular ones lie on both sides of
\* the two caps (715 * 1.4 > 1000, 670 * 1.8 > 1200).
LinearDeflections == {5, 1000, 2500}
AngularDeflections == {100, 500, 665, 670, 710, 715, 800, 1500}

PolicyInputs ==
  [linearDeflection0 : LinearDeflections,
   angularDeflection0 : AngularDeflections,
   parallel : {Undefined, Bool(TRUE), Bool(FALSE)},
   attemptIndex : -1..MaxAttemptIndex]

OnlyPolicy ==
  GlbIdle /\ StatsIdle /\ BoundsIdle /\ RetryIdle /\ MapperIdle /\ BomIdle
    /\ AsmIdle
    /\ TreeIdle
    /\ CadIdle
    /\ LoaderIdle

InitPolicy ==
  /\ pc = "policy input"
  /\ policyIn \in PolicyInputs
  /\ policyOut = Null
  /\ OnlyPolicy

Schedule ==
  /\ pc = "policy input"
  /\ policyOut' = getTriangulationForAttempt(policyIn, policyIn.attemptIndex)
  /\ pc' = "policy"
  /\ UNCHANGED <<policyIn, notPolicyVars>>

NextPolicy == Schedule

SpecPolicy == InitPolicy /\ [][NextPolicy]_vars

\* C16: every attempt is computed from the base values: attempt 0 gives the
\* base linear and angular deflection; attempt 1 gives twice the base linear
\* deflection and min(1.0, 1.4 times the base angular deflection); every
\* attempt of index 2 or more gives 4 times the base linear deflection and
\* min(1.2, 1.8 times the base angular deflection); relative is false and
\* parallel is the caller's, whatever the attempt.
C16_ScheduleFromBase ==
  pc = "policy" =>
    LET i == policyIn.attemptIndex
        lin0 == policyIn.linearDeflection0
        ang0 == policyIn.angularDeflection0
    IN
    /\ policyOut.relative = FALSE
    /\ policyOut.parallel = policyIn.parallel
    /\ i = 0 => /\ policyOut.linearDeflection = lin0
                /\ policyOut.angularDeflection = ang0
    /\ i = 1 => /\ policyOut.linearDeflection = 2 * lin0
                /\ 10 * policyOut.angularDeflection = Min(10000, 14 * ang0)
    /\ i >= 2 => /\ policyOut.linearDeflection = 4 * lin0
                 /\ 10 * policyOut.angularDeflection = Min(12000, 18 * ang0)

\* Attempt 3 of a base of 0.665 rad: 1.197 rad, below the cap, where
\* compounding from attempt to attempt would have reached it.
C16_Witness ==
  /\ pc = "policy"
  /\ policyIn.attemptIndex = 3
  /\ policyIn.angularDeflection0 = 665
  /\ policyOut.angularDeflection = 1197
  /\ policyOut.linearDeflection = 4 * policyIn.linearDeflection0

----------------------------------------------------------------------------
(* The node identity mapper: extractOcafEntryFromName, cleanGltfNodeName,   *)
(* buildPrettyNameOverridesFromGlb, buildGltfNodeIndexByOcafEntry.           *)
(* Strings are sequences of UTF-16 code units, indices are 1-based.          *)

K_name == <<110, 97, 109, 101>>

IsDigit(c) == c \in 48..57

\* \w of a regular expression without the u flag
IsWordChar(c) == c \in 48..57 \/ c \in 65..90 \/ c \in 97..122 \/ c = 95

\* \s
IsSpace(c) == c \in {9, 10, 11, 12, 13, 32, 160, 5760, 8232, 8233, 8239, 8287, 12288, 65279} \/ c \in 8192..8202

\* \b between s[i - 1] and s[i]
WordBoundary(s, i) ==
  (i > 1 /\ i - 1 <= Len(s) /\ IsWordChar(s[i - 1]))
    # (i <= Len(s) /\ IsWordChar(s[i]))

\* \d+ from i, greedy: the index after the run (i itself when there is none)
RECURSIVE DigitsEnd(_, _)
DigitsEnd(s, i) ==
  IF i <= Len(s) /\ IsDigit(s[i]) THEN DigitsEnd(s, i + 1) ELSE i

\* (?::\d+)+ from e, greedy, then \b: the ends after 1, 2, ... groups are
\* tried from the longest down; `best` is the longest end so far at which
\* \b holds (0: none).
RECURSIVE GroupsEnd(_, _, _)
GroupsEnd(s, e, best) ==
  IF e <= Len(s) /\ s[e] = 58 /\ DigitsEnd(s, e + 1) > e + 1
  THEN GroupsEnd(s, DigitsEnd(s, e + 1),
                 IF WordBoundary(s, DigitsEnd(s, e + 1))
                 THEN DigitsEnd(s, e + 1) ELSE best)
  ELSE best

\* /\b\d+(?::\d+)+\b/ tried at index p: the index after the match, or 0
EntryMatchEnd(s, p) ==
  IF WordBoundary(s, p) /\ DigitsEnd(s, p) > p
  THEN GroupsEnd(s, DigitsEnd(s, p), 0)
  ELSE 0

\* name.match(/.../g) scanned from p on; `last` is the last match so far
RECURSIVE lastOcafEntry(_, _, _)
lastOcafEntry(s, p, last) ==
  IF p > Len(s) THEN last
  ELSE IF EntryMatchEnd(s, p) > 0
  THEN lastOcafEntry(s, EntryMatchEnd(s, p),
                     Str(SubSeq(s, p, EntryMatchEnd(s, p) - 1)))
  ELSE lastOcafEntry(s, p + 1, last)

\* null or the entry as a string value
extractOcafEntryFromName(name) == lastOcafEntry(name, 1, Null)

\* String.prototype.trim
RECURSIVE TrimStart(_)
TrimStart(s) ==
  IF s # <<>> /\ IsSpace(Head(s)) THEN TrimStart(Tail(s)) ELSE s

RECURSIVE TrimEndSpace(_)
TrimEndSpace(s) ==
  IF s # <<>> /\ IsSpace(s[Len(s)])
  THEN TrimEndSpace(SubSeq(s, 1, Len(s) - 1)) ELSE s

Trim(s) == TrimEndSpace(TrimStart(s))

\* \s* from i, greedy: the index after the run
RECURSIVE SpaceEnd(_, _)
SpaceEnd(s, i) ==
  IF i <= Len(s) /\ IsSpace(s[i]) THEN SpaceEnd(s, i + 1) ELSE i

\* /\s*\[/ tried at index q: the index after the match, or 0
SeparatorEnd(s, q) ==
  IF SpaceEnd(s, q) <= Len(s) /\ s[SpaceEnd(s, q)] = 91
  THEN SpaceEnd(s, q) + 1 ELSE 0

\* s.split(/\s*\[/) of a non-empty s: p starts the current part, q scans
RECURSIVE SplitOnBracket(_, _, _, _)
SplitOnBracket(s, p, q, parts) ==
  IF q > Len(s) THEN Append(parts, SubSeq(s, p, Len(s)))
  ELSE IF SeparatorEnd(s, q) > 0
  THEN SplitOnBracket(s, SeparatorEnd(s, q), SeparatorEnd(s, q),
                      Append(parts, SubSeq(s, p, q - 1)))
  ELSE SplitOnBracket(s, p, q + 1, parts)

\* segment.indexOf(']') + 1, 0 when there is none
IndexOfClose(segment) ==
  IF \E i \in 1..Len(segment) : segment[i] = 93
  THEN CHOOSE i \in 1..Len(segment) :
         segment[i] = 93 /\ \A j \in 1..(i - 1) : segment[j] # 93
  ELSE 0

\* /NAUO\d+/i.test(s)
HasNauoTag(s) ==
  \E i \in 1..(Len(s) - 4) :
    /\ s[i] \in {78, 110}
    /\ s[i + 1] \in {65, 97}
    /\ s[i + 2] \in {85, 117}
    /\ s[i + 3] \in {79, 111}
    /\ IsDigit(s[i + 4])

\* What a bracketed segment adds to `cleaned`: nothing, or << "[inside]" >>
keptSegment(inside) ==
  IF inside = <<>> THEN <<>>
  ELSE IF lastOcafEntry(inside, 1, Null) # Null THEN <<>>
  ELSE IF HasNauoTag(inside) THEN <<>>
  ELSE << <<91>> \o inside \o <<93>> >>

cleanedSegment(segment) ==
  IF IndexOfClose(segment) = 0 THEN <<>>
  ELSE keptSegment(Trim(SubSeq(segment, 1, IndexOfClose(segment) - 1)))

RECURSIVE cleanedSegments(_, _, _)
cleanedSegments(parts, index, cleaned) ==
  IF index > Len(parts) THEN cleaned
  ELSE cleanedSegments(parts, index + 1, cleaned \o cleanedSegment(parts[index]))

\* cleaned.filter(Boolean).join(' ')
RECURSIVE JoinNonEmpty(_, _)
JoinNonEmpty(strings, acc) ==
  IF strings = <<>> THEN acc
  ELSE IF Head(strings) = <<>> THEN JoinNonEmpty(Tail(strings), acc)
  ELSE JoinNonEmpty(Tail(strings),
                    IF acc = <<>> THEN Head(strings)
                    ELSE acc \o <<32>> \o Head(strings))

\* s.replace(/\s+/g, ' ')
RECURSIVE CollapseSpaces(_, _, _)
CollapseSpaces(s, i, acc) ==
  IF i > Len(s) THEN acc
  ELSE IF IsSpace(s[i]) THEN CollapseSpaces(s, SpaceEnd(s, i), Append(acc, 32))
  ELSE CollapseSpaces(s, i + 1, Append(acc, s[i]))

cleanedResult(trimmed, parts) ==
  IF Len(parts) = 1 THEN trimmed
  ELSE LET result ==
             Trim(CollapseSpaces(
                    JoinNonEmpty(cleanedSegments(parts, 2, <<Trim(parts[1])>>), <<>>),
                    1, <<>>))
       IN IF result = <<>> THEN trimmed ELSE result

cleanTrimmed(trimmed) ==
  IF trimmed = <<>> THEN <<>>
  ELSE cleanedResult(trimmed, SplitOnBracket(trimmed, 1, 1, <<>>))

cleanGltfNodeName(name) == cleanTrimmed(Trim(name))

\* Map.prototype.has / get on a map kept as a sequence of records with an
\* `entry` key, in insertion order
MapHas(map, entry) == \E i \in 1..Len(map) : map[i].entry = entry

MapGet(map, entry) ==
  IF MapHas(map, entry)
  THEN map[CHOOSE i \in 1..Len(map) : map[i].entry = entry]
  ELSE Undefined

\* !node?.name || typeof node.name !== 'string'
HasStringName(node) ==
  Truthy(OptProp(node, K_name)) /\ TypeofString(OptProp(node, K_name))

meshIndexOf(node) ==
  IF TypeofNumber(GetProp(node, K_mesh)) THEN GetProp(node, K_mesh) ELSE Undefined

\* Faulty variant: a later node with the same entry replaces the earlier one.
indexNodeLastWins(map, node, index, entry) ==
  IF entry = Null THEN map
  ELSE SelectSeq(map, LAMBDA m : m.entry # entry.s)
         \o << [entry |-> entry.s, gltfNodeIndex |-> index,
                gltfMeshIndex |-> meshIndexOf(node)] >>

\* The body of forEach once the entry of the name is known.
indexNode(map, node, index, entry) ==
  IF entry = Null THEN map
  ELSE IF MapHas(map, entry.s) THEN map
  ELSE Append(map, [entry |-> entry.s, gltfNodeIndex |-> index,
                    gltfMeshIndex |-> meshIndexOf(node)])

\* nodes.forEach((node, index) => ...), index 0-based as in the source
RECURSIVE indexNodes(_, _, _)
indexNodes(nodes, index, map) ==
  IF index >= Len(nodes) THEN map
  ELSE indexNodes(nodes, index + 1,
         IF ~HasStringName(nodes[index + 1]) THEN map
         ELSE indexNode(map, nodes[index + 1], index,
                        extractOcafEntryFromName(OptProp(nodes[index + 1], K_name).s)))

indexOfGltf(gltf) ==
  IF ~gltf.ok THEN gltf
  ELSE [ok |-> TRUE,
        map |-> indexNodes(ArrayOrEmpty(OptProp(gltf.v, K_nodes)), 0, <<>>)]

buildGltfNodeIndexByOcafEntry(g) == indexOfGltf(parseGlbJson(g))

overrideNode(map, entry, name) ==
  IF entry = Null THEN map
  ELSE IF MapHas(map, entry.s) THEN map
  ELSE IF cleanGltfNodeName(name) # <<>> /\ cleanGltfNodeName(name) # entry.s
  THEN Append(map, [entry |-> entry.s, name |-> cleanGltfNodeName(name)])
  ELSE map

RECURSIVE overrideNodes(_, _, _)
overrideNodes(nodes, index, map) ==
  IF index >= Len(nodes) THEN map
  ELSE overrideNodes(nodes, index + 1,
         IF ~HasStringName(nodes[index + 1]) THEN map
         ELSE overrideNode(map,
                           extractOcafEntryFromName(OptProp(nodes[index + 1], K_name).s),
                           OptProp(nodes[index + 1], K_name).s))

overridesOfGltf(gltf) ==
  IF ~gltf.ok THEN gltf
  ELSE [ok |-> TRUE,
        map |-> overrideNodes(ArrayOrEmpty(OptProp(gltf.v, K_nodes)), 0, <<>>)]

buildPrettyNameOverridesFromGlb(g) == overridesOfGltf(parseGlbJson(g))

----------------------------------------------------------------------------
(* buildMappedNodeMap.  The raw node map lists its nodes in the order of    *)
(* Object.entries; a node is a record of JS values with its key.             *)

ThrowNaming(class, message, subject) ==
  [ok |-> FALSE, class |-> class, message |-> message, subject |-> subject]

mappingOf(index, node) ==
  IF TypeofString(node.labelEntry) THEN MapGet(index, node.labelEntry.s)
  ELSE Undefined

prettyNameOf(pretty, node) ==
  IF TypeofString(node.labelEntry) /\ MapHas(pretty, node.labelEntry.s)
  THEN Str(MapGet(pretty, node.labelEntry.s).name)
  ELSE Undefined

convertedNode(node, mapping, prettyName) ==
  [key |-> node.key,
   id |-> node.id,
   name |-> IF Truthy(prettyName) THEN prettyName ELSE node.name,
   productId |-> node.productId,
   parentId |-> OrElse(node.parentId, Undefined),
   childrenIds |-> IF IsArray(node.children) THEN node.children ELSE Arr(<<>>),
   gltfNodeIndex |-> mapping.gltfNodeIndex,
   gltfMeshIndex |-> mapping.gltfMeshIndex]

\* Faulty variant: a node without a mapping is left out of the result.
RECURSIVE mapNodesSkippingMissing(_, _, _, _, _, _)
mapNodesSkippingMissing(raw, index, pretty, i, used, nodes) ==
  IF i > Len(raw.nodes) THEN [ok |-> TRUE, roots |-> raw.roots, nodes |-> nodes]
  ELSE IF mappingOf(index, raw.nodes[i]) = Undefined
  THEN mapNodesSkippingMissing(raw, index, pretty, i + 1, used, nodes)
  ELSE IF mappingOf(index, raw.nodes[i]).gltfNodeIndex \in used
  THEN ThrowNaming("Error", "Duplicate glTF node mapping for index",
                   mappingOf(index, raw.nodes[i]).gltfNodeIndex)
  ELSE mapNodesSkippingMissing(raw, index, pretty, i + 1,
         used \cup {mappingOf(index, raw.nodes[i]).gltfNodeIndex},
         Append(nodes, convertedNode(raw.nodes[i], mappingOf(index, raw.nodes[i]),
                                     prettyNameOf(pretty, raw.nodes[i]))))

\* Faulty variant: a glTF node index already used is accepted again.
RECURSIVE mapNodesAllowingRepeats(_, _, _, _, _, _)
mapNodesAllowingRepeats(raw, index, pretty, i, used, nodes) ==
  IF i > Len(raw.nodes) THEN [ok |-> TRUE, roots |-> raw.roots, nodes |-> nodes]
  ELSE IF mappingOf(index, raw.nodes[i]) = Undefined
  THEN ThrowNaming("Error", "Missing glTF mapping for node", raw.nodes[i].key)
  ELSE mapNodesAllowingRepeats(raw, index, pretty, i + 1,
         used \cup {mappingOf(index, raw.nodes[i]).gltfNodeIndex},
         Append(nodes, convertedNode(raw.nodes[i], mappingOf(index, raw.nodes[i]),
                                     prettyNameOf(pretty, raw.nodes[i]))))

\* for (const [nodeId, node] of Object.entries(nodeMapRaw.nodes)) ...
RECURSIVE mapNodes(_, _, _, _, _, _)
mapNodes(raw, index, pretty, i, used, nodes) ==
  IF i > Len(raw.nodes) THEN [ok |-> TRUE, roots |-> raw.roots, nodes |-> nodes]
  ELSE IF mappingOf(index, raw.nodes[i]) = Undefined
  THEN ThrowNaming("Error", "Missing glTF mapping for node", raw.nodes[i].key)
  ELSE IF mappingOf(index, raw.nodes[i]).gltfNodeIndex \in used
  THEN ThrowNaming("Error", "Duplicate glTF node mapping for index",
                   mappingOf(index, raw.nodes[i]).gltfNodeIndex)
  ELSE mapNodes(raw, index, pretty, i + 1,
         used \cup {mappingOf(index, raw.nodes[i]).gltfNodeIndex},
         Append(nodes, convertedNode(raw.nodes[i], mappingOf(index, raw.nodes[i]),
                                     prettyNameOf(pretty, raw.nodes[i]))))

mapWith(raw, index, pretty) ==
  IF ~index.ok THEN index
  ELSE IF ~pretty.ok THEN pretty
  ELSE mapNodes(raw, index.map, pretty.map, 1, {}, <<>>)

buildMappedNodeMap(raw, g) ==
  mapWith(raw, buildGltfNodeIndexByOcafEntry(g),
          buildPrettyNameOverridesFromGlb(g))

----------------------------------------------------------------------------
(* Inputs of the mapper: the glTF nodes are those of the unit tests, the    *)
(* raw nodes those of a kernel node map.                                     *)

MaxNodes == 3
MaxRawNodes == 3

GltfNode(name, mesh) == Obj(<<KV(K_name, name)>> \o Member(K_mesh, mesh))

GltfNodeKinds ==
  <<
     \* name: 'Gear Box [0:1]'
     GltfNode(Str(<<71, 101, 97, 114, 32, 66, 111, 120, 32, 91, 48, 58, 49, 93>>), Num(0)),
     \* name: '0:1:2'
     GltfNode(Str(<<48, 58, 49, 58, 50>>), Undefined),
     \* name: 'Dup [0:1:2]'
     GltfNode(Str(<<68, 117, 112, 32, 91, 48, 58, 49, 58, 50, 93>>), Num(2)),
     \* name: 'A [0:1] [0:1:2]'
     GltfNode(Str(<<65, 32, 91, 48, 58, 49, 93, 32, 91, 48, 58, 49, 58, 50, 93>>), Str(<<120>>)),
     \* name: 'NoEntry'
     GltfNode(Str(<<78, 111, 69, 110, 116, 114, 121>>), Num(1)),
     \* name: ''
     GltfNode(Str(<<>>), Num(3)),
     \* name: 123
     GltfNode(Num(123), Num(4)),
     \* null
     Null
  >>

SeqsUpTo(S, n) == UNION { [1..k -> S] : k \in 0..n }

\* Entries of the raw nodes: '0:1', '0:1:2', '0:9' (in no glTF name), null.
LabelEntries ==
  { Str(<<48, 58, 49>>), Str(<<48, 58, 49, 58, 50>>), Str(<<48, 58, 57>>), Null }

\* The raw node at position i of the node map, its key 'n<i>'.
RawNode(i, labelEntry) ==
  [key |-> <<110, 48 + i>>,
   id |-> Str(<<110, 48 + i>>),
   labelEntry |-> labelEntry,
   name |-> Str(<<80, 97, 114, 116>>),
   productId |-> Str(<<112, 48 + (i % 2)>>),
   parentId |-> Null,
   children |-> IF i = 1 THEN Arr(<<Str(<<110, 50>>)>>) ELSE Undefined]

RawNodeMap(entries) ==
  [roots |-> <<Str(<<110, 49>>)>>,
   nodes |-> [i \in 1..Len(entries) |-> RawNode(i, entries[i])]]

\* Every list of named nodes with one raw node map, and every raw node map
\* with a few node lists; the last input is a buffer that is no GLB.
MapperInputs ==
  { [kinds |-> k, entries |-> <<Str(<<48, 58, 49>>), Str(<<48, 58, 49, 58, 50>>)>>,
     mangle |-> "none"] : k \in SeqsUpTo(1..(Len(GltfNodeKinds) - 1), MaxNodes) }
  \cup
  { [kinds |-> k, entries |-> e, mangle |-> "none"] :
      k \in {<<1, 2, 3>>, <<3, 1>>, <<8, 4>>},
      e \in SeqsUpTo(LabelEntries, MaxRawNodes) }
  \cup
  { [kinds |-> <<1>>, entries |-> e, mangle |-> "badMagic"] :
      e \in SeqsUpTo(LabelEntries, 1) }

GltfNodesOf(d) == [i \in 1..Len(d.kinds) |-> GltfNodeKinds[d.kinds[i]]]

\* buildGlbFromJson({ asset: { version: '2.0' }, nodes }) of the unit tests
MapperGlb(d) ==
  buildGlbFromJson(
    JsonStringify(
      Obj(<< KV(K_asset, Obj(<<KV(K_version, Str(<<50, 46, 48>>))>>)),
             KV(K_nodes, Arr(GltfNodesOf(d))) >>)).s,
    d.mangle)

OnlyMapper ==
  GlbIdle /\ StatsIdle /\ BoundsIdle /\ RetryIdle /\ PolicyIdle /\ BomIdle
    /\ AsmIdle
    /\ TreeIdle
    /\ CadIdle
    /\ LoaderIdle

InitMapper ==
  /\ pc = "mapper input"
  /\ \E d \in MapperInputs :
       /\ gltfNodes = GltfNodesOf(d)
       /\ mglb = MapperGlb(d)
       /\ nodeMapRaw = RawNodeMap(d.entries)
  /\ nodeIndex = None
  /\ mappedNodeMap = None
  /\ OnlyMapper

BuildIndex ==
  /\ nodeIndex = None
  /\ pc \in {"mapper input", "mapper"}
  /\ nodeIndex' = buildGltfNodeIndexByOcafEntry(mglb)
  /\ pc' = "mapper"
  /\ UNCHANGED <<gltfNodes, mglb, nodeMapRaw, mappedNodeMap, notMapperVars>>

BuildMapped ==
  /\ mappedNodeMap = None
  /\ pc \in {"mapper input", "mapper"}
  /\ mappedNodeMap' = buildMappedNodeMap(nodeMapRaw, mglb)
  /\ pc' = "mapper"
  /\ UNCHANGED <<gltfNodes, mglb, nodeMapRaw, nodeIndex, notMapperVars>>

NextMapper == BuildIndex \/ BuildMapped

SpecMapper == InitMapper /\ [][NextMapper]_vars

----------------------------------------------------------------------------
(* Properties of the mapper (SpecMapper) *)

\* The identifier of glTF node i (1-based), Null when its name is no
\* non-empty string or holds no identifier.
IdentifierOf(i) ==
  IF gltfNodes[i] = Null THEN Null
  ELSE LET name == GetProp(gltfNodes[i], K_name) IN
       IF name.t = "str" /\ name.s # <<>> THEN extractOcafEntryFromName(name.s)
       ELSE Null

NumericMeshOf(i) ==
  LET mesh == GetProp(gltfNodes[i], K_mesh) IN
  IF mesh.t = "num" THEN mesh ELSE Undefined

FirstWith(e) ==
  CHOOSE i \in 1..Len(gltfNodes) :
    /\ IdentifierOf(i) = e
    /\ \A j \in 1..(i - 1) : IdentifierOf(j) # e

\* C17: the index maps each identifier to the lowest-index glTF node whose
\* string name yields it, with that node's array index and its mesh when
\* numeric; a later node with the same identifier does not overwrite the
\* entry, and nodes without a non-empty string name or without an identifier
\* produce no entry.
C17_FirstOccurrenceWins ==
  (nodeIndex # None /\ nodeIndex.ok) =>
    LET map == nodeIndex.map IN
    /\ \A i \in 1..Len(gltfNodes) :
         IdentifierOf(i) # Null => MapHas(map, IdentifierOf(i).s)
    /\ \A m \in 1..Len(map) :
         /\ \E i \in 1..Len(gltfNodes) : IdentifierOf(i) = Str(map[m].entry)
         /\ map[m].gltfNodeIndex = FirstWith(Str(map[m].entry)) - 1
         /\ map[m].gltfMeshIndex = NumericMeshOf(FirstWith(Str(map[m].entry)))
         /\ \A n \in 1..Len(map) : map[n].entry = map[m].entry => n = m

\* Three nodes name 0:1:2; the entry is that of the second node of the list,
\* the first of the three, and a node without identifier comes before it.
C17_Witness ==
  /\ nodeIndex # None
  /\ nodeIndex.ok
  /\ Len(gltfNodes) = 3
  /\ IdentifierOf(1) = Null
  /\ IdentifierOf(2) = IdentifierOf(3)
  /\ NumericMeshOf(2) # NumericMeshOf(3)
  /\ Len(nodeIndex.map) = 1
  /\ nodeIndex.map[1].gltfNodeIndex = 1

RawCount == Len(nodeMapRaw.nodes)

\* Raw node i has a string labelEntry that some glTF node name yields.
Resolves(i) ==
  /\ nodeMapRaw.nodes[i].labelEntry.t = "str"
  /\ \E j \in 1..Len(gltfNodes) : IdentifierOf(j) = nodeMapRaw.nodes[i].labelEntry

\* The glTF node index raw node i resolves to.
TargetOf(i) == FirstWith(nodeMapRaw.nodes[i].labelEntry) - 1

\* Raw node i resolves to the glTF node of an earlier raw node.
Repeats(i) ==
  /\ Resolves(i)
  /\ \E j \in 1..(i - 1) : Resolves(j) /\ TargetOf(j) = TargetOf(i)

SomeUnresolved == \E i \in 1..RawCount : ~Resolves(i)

SomeSharedEntry ==
  \E i, j \in 1..RawCount :
    /\ i < j
    /\ nodeMapRaw.nodes[i].labelEntry.t = "str"
    /\ nodeMapRaw.nodes[i].labelEntry = nodeMapRaw.nodes[j].labelEntry

\* The first raw node, in node-map order, that does not resolve or repeats.
FirstOffender ==
  CHOOSE i \in 1..RawCount :
    /\ ~Resolves(i) \/ Repeats(i)
    /\ \A j \in 1..(i - 1) : Resolves(j) /\ ~Repeats(j)

\* buildMappedNodeMap has run on a GLB whose index could be built.
Mapped == mappedNodeMap # None /\ parseGlbJson(mglb).ok

IsMissingGltfMapping(result, i) ==
  /\ ~result.ok
  /\ result.message = "Missing glTF mapping for node"
  /\ Str(result.subject) = nodeMapRaw.nodes[i].id

IsDuplicateGltfMapping(result, index) ==
  /\ ~result.ok
  /\ result.message = "Duplicate glTF node mapping for index"
  /\ result.subject = index

\* The failure is that of the first offender in node-map order.
FailsAtFirstOffender ==
  /\ ~mappedNodeMap.ok
  /\ IF Resolves(FirstOffender)
     THEN IsDuplicateGltfMapping(mappedNodeMap, TargetOf(FirstOffender))
     ELSE IsMissingGltfMapping(mappedNodeMap, FirstOffender)

\* C18 as stated: whenever some raw node's labelEntry is not a string or has
\* no entry in the index, buildMappedNodeMap fails with the missing-mapping
\* failure naming such a node's id, and returns no map.
C18_MissingAlwaysReported ==
  (Mapped /\ SomeUnresolved) =>
    \E i \in 1..RawCount : ~Resolves(i) /\ IsMissingGltfMapping(mappedNodeMap, i)

\* C18, amended: whenever some raw node's labelEntry is not a string or has
\* no entry in the index, buildMappedNodeMap fails and returns no map, not
\* even a partial one; the failure is the missing-mapping failure naming the
\* first such node, unless a node before it resolves to the glTF node of an
\* earlier node, in which case it is the duplicate-mapping failure.
C18_MissingIsFatal ==
  (Mapped /\ SomeUnresolved) => FailsAtFirstOffender

\* The labelEntry of the second raw node is in no glTF name; the failure
\* names that node.
C18_Witness ==
  /\ Mapped
  /\ RawCount = 3
  /\ Resolves(1)
  /\ ~Resolves(2)
  /\ nodeMapRaw.nodes[2].labelEntry.t = "str"
  /\ IsMissingGltfMapping(mappedNodeMap, 2)

InjectiveIfReturned ==
  mappedNodeMap.ok =>
    \A a, b \in 1..Len(mappedNodeMap.nodes) :
      mappedNodeMap.nodes[a].gltfNodeIndex = mappedNodeMap.nodes[b].gltfNodeIndex
        => a = b

\* C19 as stated: when two raw nodes share a labelEntry, buildMappedNodeMap
\* fails with the duplicate-mapping failure naming the repeated glTF node
\* index; no returned map has two nodes with the same gltfNodeIndex.
C19_SharedEntryReportedAsDuplicate ==
  Mapped =>
    /\ InjectiveIfReturned
    /\ SomeSharedEntry =>
         \E i \in 1..RawCount :
           Repeats(i) /\ IsDuplicateGltfMapping(mappedNodeMap, TargetOf(i))

\* C19, amended: when two raw nodes share a labelEntry, buildMappedNodeMap
\* fails: with the duplicate-mapping failure naming the repeated glTF node
\* index if every node up to the first repeat resolves, with the
\* missing-mapping failure of the first node that does not resolve otherwise;
\* no returned map has two nodes with the same gltfNodeIndex.
C19_SharedEntryIsFatal ==
  Mapped =>
    /\ InjectiveIfReturned
    /\ SomeSharedEntry => FailsAtFirstOffender

\* The first and the third raw node share an entry that resolves to glTF
\* node 1; the failure names index 1.
C19_Witness ==
  /\ Mapped
  /\ RawCount = 3
  /\ nodeMapRaw.nodes[1].labelEntry = nodeMapRaw.nodes[3].labelEntry
  /\ Resolves(2)
  /\ Repeats(3)
  /\ TargetOf(3) = 1
  /\ IsDuplicateGltfMapping(mappedNodeMap, 1)

----------------------------------------------------------------------------
(* buildBomSummary *)

\* The condition under which a node sets the pretty name of its product.
namesProduct(node) ==
  /\ node # Null /\ node # Undefined
  /\ TypeofString(node.productId)
  /\ Len(node.productId.s) > 0
  /\ TypeofString(node.name)
  /\ Len(node.name.s) > 0

\* Faulty variant: a later node of the same product replaces the name.
prettyNameLastWins(map, node) ==
  IF ~namesProduct(node) THEN map
  ELSE SelectSeq(map, LAMBDA m : m.entry # node.productId.s)
         \o << [entry |-> node.productId.s, name |-> node.name.s] >>

\* The body of Object.values(mappedNodeMap.nodes).forEach
prettyNameOfNode(map, node) ==
  IF namesProduct(node) /\ ~MapHas(map, node.productId.s)
  THEN Append(map, [entry |-> node.productId.s, name |-> node.name.s])
  ELSE map

RECURSIVE prettyNameByProductId(_, _, _)
prettyNameByProductId(nodes, i, map) ==
  IF i > Len(nodes) THEN map
  ELSE prettyNameByProductId(nodes, i + 1, prettyNameOfNode(map, nodes[i]))

\* a || b
OrValue(a, b) == IF Truthy(a) THEN a ELSE b

prettyNameForItem(map, item) ==
  IF TypeofString(item.productId) /\ MapHas(map, item.productId.s)
  THEN Str(MapGet(map, item.productId.s).name)
  ELSE Undefined

summaryItem(map, item) ==
  [name |-> OrValue(OrValue(OrValue(prettyNameForItem(map, item), item.productName),
                            item.productId),
                    Str(<<85, 110, 107, 110, 111, 119, 110>>)),
   quantity |-> OrElse(item.quantity, Num(0)),
   productId |-> item.productId,
   kind |-> item.kind]

itemsOf(raw) == IF raw = Undefined \/ raw = Null THEN Undefined ELSE raw.items

summaryOfItems(items, map) ==
  IF ~IsArray(items) THEN <<>>
  ELSE [i \in 1..Len(items.a) |-> summaryItem(map, items.a[i])]

buildBomSummary(raw, nodeMap) ==
  summaryOfItems(itemsOf(raw), prettyNameByProductId(nodeMap.nodes, 1, <<>>))

----------------------------------------------------------------------------
(* Inputs of buildBomSummary *)

MaxBomNodes == 3

P0 == Str(<<112, 48>>)
P1 == Str(<<112, 49>>)
Pretty == Str(<<80, 114, 101, 116, 116, 121>>)
Other == Str(<<79, 116, 104, 101, 114>>)
NameOnly == Str(<<78, 97, 109, 101, 79, 110, 108, 121>>)
Empty == Str(<<>>)

BomNode(productId, name) ==
  [productId |-> productId, name |-> name, gltfNodeIndex |-> 0]

BomNodes ==
  { BomNode(P0, Pretty), BomNode(P0, Empty), BomNode(P0, Other),
    BomNode(P1, Other), BomNode(Empty, Pretty), BomNode(Undefined, Pretty),
    Null }

\* Items of every naming with a missing quantity, and of every quantity.
BomItems ==
  [productId : {Undefined, P0, P1, Empty},
   productName : {Undefined, NameOnly, Empty},
   quantity : {Undefined},
   kind : {Undefined}]
  \cup
  [productId : {P0},
   productName : {NameOnly},
   quantity : {Null, Num(0), Num(2)},
   kind : {Undefined}]

\* The items of the unit test, and one of another kind.
FewBomItems ==
  { [productId |-> P0, productName |-> Undefined, quantity |-> Undefined,
     kind |-> Undefined],
    [productId |-> Undefined, productName |-> NameOnly, quantity |-> Num(2),
     kind |-> Undefined],
    [productId |-> Undefined, productName |-> Undefined, quantity |-> Num(0),
     kind |-> Undefined],
    [productId |-> P1, productName |-> NameOnly, quantity |-> Num(2),
     kind |-> Str(<<112, 97, 114, 116>>)] }

\* Every item alone over every node map, every pair of the few items over
\* the node maps of one node, and a BOM without an items array.
BomInputs ==
  { [raw |-> [items |-> Arr(<<item>>)], nodes |-> nodes] :
      item \in BomItems, nodes \in SeqsUpTo(BomNodes, MaxBomNodes) }
  \cup
  { [raw |-> [items |-> Arr(items)], nodes |-> nodes] :
      items \in [1..2 -> FewBomItems], nodes \in SeqsUpTo(BomNodes, 1) }
  \cup
  { [raw |-> raw, nodes |-> <<BomNode(P0, Pretty)>>] :
      raw \in {Null, Undefined, [items |-> Null], [items |-> Arr(<<>>)]} }

OnlyBom ==
  GlbIdle /\ StatsIdle /\ BoundsIdle /\ RetryIdle /\ PolicyIdle /\ MapperIdle
    /\ AsmIdle
    /\ TreeIdle
    /\ CadIdle
    /\ LoaderIdle

InitBom ==
  /\ pc = "bom input"
  /\ \E d \in BomInputs :
       /\ bomRaw = d.raw
       /\ bomNodeMap = [roots |-> <<>>, nodes |-> d.nodes]
  /\ bomSummary = None
  /\ OnlyBom

SummarizeBom ==
  /\ pc = "bom input"
  /\ bomSummary' = buildBomSummary(bomRaw, bomNodeMap)
  /\ pc' = "bom"
  /\ UNCHANGED <<bomRaw, bomNodeMap, notBomVars>>

NextBom == SummarizeBom

SpecBom == InitBom /\ [][NextBom]_vars

----------------------------------------------------------------------------
(* Properties of buildBomSummary (SpecBom) *)

BomItemList == IF bomRaw \in {Null, Undefined} \/ bomRaw.items = Null
               THEN <<>> ELSE bomRaw.items.a

NonEmptyString(v) == v.t = "str" /\ v.s # <<>>

\* Mapped node n has product id p and a non-empty name.
NamesProductOf(n, p) ==
  /\ bomNodeMap.nodes[n] # Null
  /\ bomNodeMap.nodes[n].productId = p
  /\ NonEmptyString(bomNodeMap.nodes[n].name)

ExpectedBomName(item) ==
  IF NonEmptyString(item.productId)
       /\ \E n \in 1..Len(bomNodeMap.nodes) : NamesProductOf(n, item.productId)
  THEN bomNodeMap.nodes[
         CHOOSE n \in 1..Len(bomNodeMap.nodes) :
           /\ NamesProductOf(n, item.productId)
           /\ \A m \in 1..(n - 1) : ~NamesProductOf(m, item.productId)].name
  ELSE IF NonEmptyString(item.productName) THEN item.productName
  ELSE IF NonEmptyString(item.productId) THEN item.productId
  ELSE Str(<<85, 110, 107, 110, 111, 119, 110>>)

\* C20: the summary has one entry per BOM item, in BOM order; its name is the
\* first available of the name of the first mapped node, in node-map order,
\* with the item's productId and a non-empty name, the item's productName,
\* the item's productId, and "Unknown"; its quantity is the item's, or 0 when
\* the item has none.
C20_BomSummaryNames ==
  pc = "bom" =>
    /\ Len(bomSummary) = Len(BomItemList)
    /\ \A i \in 1..Len(BomItemList) :
         /\ bomSummary[i].name = ExpectedBomName(BomItemList[i])
         /\ bomSummary[i].quantity =
              IF BomItemList[i].quantity \in {Undefined, Null} THEN Num(0)
              ELSE BomItemList[i].quantity
         /\ bomSummary[i].productId = BomItemList[i].productId

\* Two nodes of product p0 with different names, after one of p0 without a
\* name: the item of p0 is named after the second node of the map, and its
\* missing quantity is 0.
C20_Witness ==
  /\ pc = "bom"
  /\ Len(bomNodeMap.nodes) = 3
  /\ bomNodeMap.nodes[1] = BomNode(P0, Empty)
  /\ bomNodeMap.nodes[2] = BomNode(P0, Other)
  /\ bomNodeMap.nodes[3] = BomNode(P0, Pretty)
  /\ Len(bomSummary) = 1
  /\ bomRaw.items.a[1].productName = NameOnly
  /\ bomSummary[1].name = Other
  /\ bomSummary[1].quantity = Num(0)

----------------------------------------------------------------------------
(* The schedule from one attempt to the next (SpecPolicy) *)

NextAttempt == getTriangulationForAttempt(policyIn, policyIn.attemptIndex + 1)

\* C25 as stated: for a base of positive linear and angular deflection and
\* an attempt index i >= 0, the linear and the angular deflection of attempt
\* i + 1 are each at least those of attempt i.
C25_OnlyCoarsens ==
  (/\ pc = "policy"
   /\ policyIn.attemptIndex >= 0
   /\ policyIn.linearDeflection0 > 0
   /\ policyIn.angularDeflection0 > 0)
  => /\ NextAttempt.linearDeflection >= policyOut.linearDeflection
     /\ NextAttempt.angularDeflection >= policyOut.angularDeflection

----------------------------------------------------------------------------
(* Retries and their schedules (SpecRetry) *)

\* The schedule attempt j was triangulated with.
TriangulatedWith(j) == kernelCalls[2 * j + 1].with

\* C26 as stated: whenever a mesh/triangle-explosion-retry warning was
\* emitted for attempt i, attempt i + 1 is triangulated with a strictly
\* larger linear deflection than attempt i.
C26_RetryIsCoarser ==
  \A m \in 1..Len(conversionWarnings) :
    (/\ conversionWarnings[m].code = "mesh/triangle-explosion-retry"
     /\ 2 * (conversionWarnings[m].attempt + 1) + 1 <= Len(kernelCalls))
    => TriangulatedWith(conversionWarnings[m].attempt + 1).linearDeflection
         > TriangulatedWith(conversionWarnings[m].attempt).linearDeflection

----------------------------------------------------------------------------
(* Accepted buffers and their chunks (SpecGlb) *)

\* C27 as stated: every buffer parseGlb accepts is exactly tiled by the
\* returned chunks (12 plus the sum over the chunks of 8 plus the payload
\* length is the buffer length), so that buildGlb applied to the parsed
\* version and raw chunks reproduces every accepted buffer byte for byte.
C27_AcceptedIsTiled ==
  /\ (pc \in {"parsed", "rebuilt"} /\ parsed.ok) =>
       12 + SumChunkBytes(parsed.chunks) = Len(glb)
  /\ pc = "rebuilt" => rebuilt = glb

----------------------------------------------------------------------------
(* Names and indices of mapped nodes (SpecMapper) *)

\* The pretty name buildMappedNodeMap looks up for raw node i.
PrettyNameApplied(i) ==
  prettyNameOf(buildPrettyNameOverridesFromGlb(mglb).map, nodeMapRaw.nodes[i])

\* The cleaned name of the glTF node stored at index n (0-based).
CleanedNameAt(n) ==
  Str(cleanGltfNodeName(GetProp(gltfNodes[n + 1], K_name).s))

\* C28 as stated: in a mapped node map, whenever a pretty name is applied
\* for a node's identifier, the node's name is the cleaned name of the glTF
\* node stored at the node's gltfNodeIndex.
C28_NameAndIndexFromSameNode ==
  (Mapped /\ mappedNodeMap.ok) =>
    \A i \in 1..Len(mappedNodeMap.nodes) :
      Truthy(PrettyNameApplied(i)) =>
        mappedNodeMap.nodes[i].name
          = CleanedNameAt(mappedNodeMap.nodes[i].gltfNodeIndex)

----------------------------------------------------------------------------
(* The shape of the returned bounds (SpecBounds) *)

\* C29 as stated: every bounds value computeBoundsMeters returns is a
\* non-inverted box, min[k] <= max[k] on each of the three axes, on the
\* min/max path and on the BIN path and for every accessor content.
C29_BoxNotInverted ==
  (pc = "bounds" /\ bounds.ok) =>
    \A k \in 1..3 : bounds.min[k] <= bounds.max[k]

----------------------------------------------------------------------------
(* The lenient readers and the strict codec (SpecGlb) *)

ContainerFailures ==
  { "Invalid GLB: truncated header", "Invalid GLB: invalid magic",
    "Invalid GLB: truncated chunk", "Invalid GLB: missing JSON chunk" }

\* The first BIN-type chunk of a strict chunk list (1-based), 0 when none.
FirstBinChunk(chunks) ==
  IF BinChunks(chunks) = {} THEN 0 ELSE MinOf(BinChunks(chunks))

\* C30: on every buffer parseGlb accepts, if the buffer has a JSON-type
\* chunk then parseGlbJson does not fail on container grounds and decodes the
\* first JSON chunk of the strict chunk list, the one injectAssetExtrasIntoGlb
\* replaces; parseGlbBin returns the payload of the first BIN-type chunk of
\* the strict chunk list, or null when the list has none.
C30_LenientAgreesWithStrict ==
  (pc = "lenient" /\ parsed.ok) =>
    /\ findJsonChunkIndex(parsed.chunks) # -1 =>
         /\ lenientJson.ok \/ lenientJson.message \notin ContainerFailures
         /\ lenientJson =
              JsonParse(decodeUtf8(
                parsed.chunks[findJsonChunkIndex(parsed.chunks) + 1].data))
    /\ lenientBin.found <=> FirstBinChunk(parsed.chunks) # 0
    /\ lenientBin.found =>
         lenientBin.bytes = parsed.chunks[FirstBinChunk(parsed.chunks)].data

\* A BIN chunk before the JSON chunk: each reader skips the other's chunk.
C30_Witness ==
  /\ pc = "lenient"
  /\ parsed.ok
  /\ input.layout = <<"BIN", "JSON">>
  /\ input.bin # <<>>
  /\ lenientJson.ok
  /\ lenientBin.found
  /\ lenientBin.bytes = input.bin

----------------------------------------------------------------------------

OnlyAsm ==
  StatsIdle
    /\ BoundsIdle
    /\ RetryIdle
    /\ PolicyIdle
    /\ BomIdle
    /\ MapperIdle
    /\ GlbIdle
    /\ TreeIdle
    /\ CadIdle
    /\ LoaderIdle

----------------------------------------------------------------------------
(* src/core/assembly.ts: buildAssemblyGraph, traverseLabel, buildBom.       *)
(* A label is the record of what the kernel answers about it: entry        *)
(* (TDF_Tool.Entry), name (resolveLabelName), isComponent, isReference,    *)
(* referred (GetReferredShape, Null when it fails), isAssembly and         *)
(* components (GetComponents).  Strings are sequences of code units.       *)

\* [...].join('/')
RECURSIVE JoinSlash(_)
JoinSlash(path) ==
  IF path = <<>> THEN <<>>
  ELSE IF Len(path) = 1 THEN path[1]
  ELSE path[1] \o <<47>> \o JoinSlash(Tail(path))

\* a || b || ... || z over strings: the first non-empty one, else the last
RECURSIVE FirstNonEmpty(_)
FirstNonEmpty(strings) ==
  IF Len(strings) = 1 \/ Head(strings) # <<>> THEN Head(strings)
  ELSE FirstNonEmpty(Tail(strings))

\* nameOverrides?.[entry], '' standing for undefined
overrideOf(overrides, entry) ==
  IF overrides # Undefined /\ MapHas(overrides.map, entry)
  THEN MapGet(overrides.map, entry).name
  ELSE <<>>

resolveProduct(label) ==
  IF (label.isComponent \/ label.isReference) /\ label.referred # Null
  THEN label.referred
  ELSE label

kindOf(productLabel) == IF productLabel.isAssembly THEN "assembly" ELSE "part"

\* nodes[id], as a position in the node list (0 when absent)
NodeAt(nodes, id) ==
  IF \E k \in 1..Len(nodes) : nodes[k].id = id
  THEN CHOOSE k \in 1..Len(nodes) : nodes[k].id = id
  ELSE 0

\* Lines 139-161: the node created for a path seen for the first time
newNode(label, productLabel, instanceEntry, parentPath, overrides) ==
  [id |-> JoinSlash(Append(parentPath, instanceEntry)),
   labelEntry |-> instanceEntry,
   name |-> FirstNonEmpty(<<overrideOf(overrides, instanceEntry), label.name,
                            overrideOf(overrides, productLabel.entry),
                            productLabel.name, instanceEntry>>),
   kind |-> kindOf(productLabel),
   productId |-> FirstNonEmpty(<<productLabel.entry, instanceEntry>>),
   productName |-> FirstNonEmpty(<<overrideOf(overrides, productLabel.entry),
                                   productLabel.name,
                                   overrideOf(overrides, instanceEntry),
                                   label.name, instanceEntry>>),
   parentId |-> IF parentPath = <<>> THEN Null ELSE Str(JoinSlash(parentPath)),
   children |-> <<>>,
   path |-> Append(parentPath, instanceEntry)]

withNode(g, node) ==
  IF NodeAt(g.nodes, node.id) # 0 THEN g
  ELSE [g EXCEPT !.nodes = Append(@, node)]

\* Lines 163-165
withChild(g, parentPath, nodeId) ==
  IF parentPath # <<>> /\ NodeAt(g.nodes, JoinSlash(parentPath)) # 0
  THEN [g EXCEPT !.nodes[NodeAt(g.nodes, JoinSlash(parentPath))].children =
                    Append(@, nodeId)]
  ELSE g

\* Lines 167-172
withOccurrence(g, nodeId, instanceEntry, path) ==
  [g EXCEPT !.occurrences =
     Append(@, [nodeId |-> nodeId, instanceId |-> instanceEntry,
                name |-> g.nodes[NodeAt(g.nodes, nodeId)].name,
                path |-> path])]

visitLabel(g, label, productLabel, instanceEntry, parentPath, overrides) ==
  withOccurrence(
    withChild(
      withNode(g, newNode(label, productLabel, instanceEntry, parentPath,
                          overrides)),
      parentPath, JoinSlash(Append(parentPath, instanceEntry))),
    JoinSlash(Append(parentPath, instanceEntry)), instanceEntry,
    Append(parentPath, instanceEntry))

RECURSIVE traverseLabel(_, _, _, _)
RECURSIVE traverseComponents(_, _, _, _, _)

\* Lines 174-186: the loop over the components of an assembly, entered at i
traverseComponents(components, i, path, g, overrides) ==
  IF i > Len(components) THEN g
  ELSE traverseComponents(components, i + 1, path,
         traverseLabel(components[i], path, g, overrides).graph, overrides)

traverseEntry(label, productLabel, instanceEntry, parentPath, g, overrides) ==
  IF instanceEntry = <<>> THEN [graph |-> g, nodeId |-> Null]
  ELSE [graph |->
          IF kindOf(productLabel) = "assembly"
          THEN traverseComponents(productLabel.components, 1,
                 Append(parentPath, instanceEntry),
                 visitLabel(g, label, productLabel, instanceEntry, parentPath,
                            overrides),
                 overrides)
          ELSE visitLabel(g, label, productLabel, instanceEntry, parentPath,
                          overrides),
        nodeId |-> Str(JoinSlash(Append(parentPath, instanceEntry)))]

traverseLabel(label, parentPath, g, overrides) ==
  traverseEntry(label, resolveProduct(label),
                FirstNonEmpty(<<label.entry, resolveProduct(label).entry>>),
                parentPath, g, overrides)

\* The loop over the free shapes, entered at index i with the root ids so far
RECURSIVE traverseRoots(_, _, _, _, _)
traverseRoots(roots, i, rootIds, g, overrides) ==
  IF i > Len(roots)
  THEN [roots |-> rootIds, nodes |-> g.nodes, occurrences |-> g.occurrences]
  ELSE traverseRoots(roots, i + 1,
         IF traverseLabel(roots[i], <<>>, g, overrides).nodeId = Null
         THEN rootIds
         ELSE Append(rootIds,
                     traverseLabel(roots[i], <<>>, g, overrides).nodeId),
         traverseLabel(roots[i], <<>>, g, overrides).graph, overrides)

buildAssemblyGraph(roots, overrides) ==
  traverseRoots(roots, 1, <<>>, [nodes |-> <<>>, occurrences |-> <<>>],
                overrides)

ItemAt(items, productId) ==
  IF \E k \in 1..Len(items) : items[k].productId = productId
  THEN CHOOSE k \in 1..Len(items) : items[k].productId = productId
  ELSE 0

\* Faulty variant: a further occurrence is listed but not counted.
mergeOccurrenceUncounted(items, node, occurrence) ==
  IF ItemAt(items, node.productId) # 0
  THEN [items EXCEPT ![ItemAt(items, node.productId)].instances =
                        Append(@, occurrence)]
  ELSE Append(items, [productId |-> node.productId,
                      productName |-> node.productName,
                      kind |-> node.kind,
                      quantity |-> 1,
                      instances |-> <<occurrence>>])

\* Lines 45-57: the body of occurrences.forEach for an occurrence with a node
mergeOccurrence(items, node, occurrence) ==
  IF ItemAt(items, node.productId) # 0
  THEN [items EXCEPT ![ItemAt(items, node.productId)].quantity = @ + 1,
                     ![ItemAt(items, node.productId)].instances =
                        Append(@, occurrence)]
  ELSE Append(items, [productId |-> node.productId,
                      productName |-> node.productName,
                      kind |-> node.kind,
                      quantity |-> 1,
                      instances |-> <<occurrence>>])

RECURSIVE itemsByProduct(_, _, _)
itemsByProduct(graph, i, items) ==
  IF i > Len(graph.occurrences) THEN items
  ELSE IF NodeAt(graph.nodes, graph.occurrences[i].nodeId) = 0
  THEN itemsByProduct(graph, i + 1, items)
  ELSE itemsByProduct(graph, i + 1,
         mergeOccurrence(items,
           graph.nodes[NodeAt(graph.nodes, graph.occurrences[i].nodeId)],
           graph.occurrences[i]))

bomOfGraph(graph) ==
  [ok |-> TRUE, roots |-> graph.roots, items |-> itemsByProduct(graph, 1, <<>>)]

buildBom(roots, overrides) == bomOfGraph(buildAssemblyGraph(roots, overrides))

----------------------------------------------------------------------------
(* Inputs of buildBom: label trees built the way the unit tests build      *)
(* theirs: products, instances that refer to them, and a root assembly.    *)

MaxComponents == 2

ProductLabel(entry, name, isAssembly, components) ==
  [entry |-> entry, name |-> name, isComponent |-> FALSE,
   isReference |-> FALSE, referred |-> Null, isAssembly |-> isAssembly,
   components |-> components]

InstanceLabel(entry, name, product) ==
  [entry |-> entry, name |-> name, isComponent |-> TRUE,
   isReference |-> FALSE, referred |-> product, isAssembly |-> FALSE,
   components |-> <<>>]

\* product '2:1' named 'Shared', product '2:2' without a name
SharedProduct == ProductLabel(<<50, 58, 49>>, <<83, 104, 97, 114, 101, 100>>, FALSE, <<>>)
UnnamedProduct == ProductLabel(<<50, 58, 50>>, <<>>, FALSE, <<>>)

\* assembly product '2:3' with one instance '2:3:1' of the shared product
SubAssembly ==
  ProductLabel(<<50, 58, 51>>, <<83, 117, 98>>, TRUE,
               <<InstanceLabel(<<50, 58, 51, 58, 49>>, <<67>>, SharedProduct)>>)

\* The components a root may have; an entry names one label, so no two of
\* them share an entry.
ComponentLabels ==
  << InstanceLabel(<<50, 58, 48, 58, 49>>, <<65>>, SharedProduct),
     InstanceLabel(<<50, 58, 48, 58, 50>>, <<66>>, SharedProduct),
     InstanceLabel(<<50, 58, 48, 58, 52>>, <<>>, UnnamedProduct),
     InstanceLabel(<<50, 58, 48, 58, 51>>, <<68>>, SubAssembly),
     InstanceLabel(<<>>, <<>>, SharedProduct),
     SharedProduct,
     ProductLabel(<<>>, <<78>>, FALSE, <<>>) >>

RootAssembly(components) ==
  ProductLabel(<<50, 58, 48>>, <<82, 111, 111, 116>>, TRUE, components)

ComponentLists ==
  { [i \in 1..Len(c) |-> ComponentLabels[c[i]]] :
      c \in SeqsUpTo(1..Len(ComponentLabels), MaxComponents) }

\* One root assembly; the same root listed twice; a root and a free part.
FreeShapeLists ==
  { <<RootAssembly(c)>> : c \in ComponentLists }
  \cup { <<RootAssembly(c), RootAssembly(c)>> : c \in SeqsUpTo({ComponentLabels[1], ComponentLabels[4]}, 1) }
  \cup { <<RootAssembly(<<ComponentLabels[k]>>), SharedProduct>> :
           k \in 1..Len(ComponentLabels) }

\* nameOverrides: absent, or { '2:1': 'Override' }
NameOverrides ==
  { Undefined,
    [t |-> "record",
     map |-> <<[entry |-> <<50, 58, 49>>,
                name |-> <<79, 118, 101, 114, 114, 105, 100, 101>>]>>] }

InitAsm ==
  /\ pc = "asm input"
  /\ asmRoots \in FreeShapeLists
  /\ asmOverrides \in NameOverrides
  /\ asmBom = None
  /\ OnlyAsm

BuildBom ==
  /\ pc = "asm input"
  /\ asmBom' = buildBom(asmRoots, asmOverrides)
  /\ pc' = "bom built"
  /\ UNCHANGED <<asmRoots, asmOverrides, notAsmVars>>

NextAsm == BuildBom

SpecAsm == InitAsm /\ [][NextAsm]_vars

----------------------------------------------------------------------------
(* Properties of buildBom (SpecAsm) *)

\* The occurrences of a label tree, counted on the labels: a label with an
\* entry of its own or of its product is one occurrence, followed by those of
\* its product's components when the product is an assembly.
RECURSIVE OccurrencesOf(_)
RECURSIVE OccurrencesOfAll(_)
OccurrencesOf(label) ==
  IF FirstNonEmpty(<<label.entry, resolveProduct(label).entry>>) = <<>> THEN <<>>
  ELSE <<FirstNonEmpty(<<resolveProduct(label).entry, label.entry>>)>>
         \o (IF resolveProduct(label).isAssembly
             THEN OccurrencesOfAll(resolveProduct(label).components)
             ELSE <<>>)

OccurrencesOfAll(labels) ==
  IF labels = <<>> THEN <<>>
  ELSE OccurrencesOf(Head(labels)) \o OccurrencesOfAll(Tail(labels))

\* How many of the occurrences of the free shapes are of a product.
CountOf(productId) ==
  Cardinality({ k \in 1..Len(OccurrencesOfAll(asmRoots)) :
                  OccurrencesOfAll(asmRoots)[k] = productId })

\* C21: in every BOM buildBom produces, the occurrences sharing a productId
\* are aggregated into one item (no two items share a productId, and every
\* product that occurs has its item), and each item's quantity is the length
\* of its instances list, which is the number of occurrences of its product.
C21_QuantityIsInstances ==
  (pc = "bom built") =>
    /\ asmBom.ok
    /\ \A i, j \in 1..Len(asmBom.items) :
         asmBom.items[i].productId = asmBom.items[j].productId => i = j
    /\ \A i \in 1..Len(asmBom.items) :
         /\ asmBom.items[i].quantity = Len(asmBom.items[i].instances)
         /\ asmBom.items[i].quantity = CountOf(asmBom.items[i].productId)
    /\ \A k \in 1..Len(OccurrencesOfAll(asmRoots)) :
         ItemAt(asmBom.items, OccurrencesOfAll(asmRoots)[k]) # 0

\* The unit test's tree: two instances A and B of the product '2:1'.
C21_Witness ==
  /\ pc = "bom built"
  /\ Len(asmRoots) = 1
  /\ asmRoots[1].components = <<ComponentLabels[1], ComponentLabels[2]>>
  /\ ItemAt(asmBom.items, <<50, 58, 49>>) # 0
  /\ asmBom.items[ItemAt(asmBom.items, <<50, 58, 49>>)].quantity = 2
  /\ Len(asmBom.items[ItemAt(asmBom.items, <<50, 58, 49>>)].instances) = 2

----------------------------------------------------------------------------

OnlyTree ==
  StatsIdle
    /\ BoundsIdle
    /\ RetryIdle
    /\ PolicyIdle
    /\ BomIdle
    /\ MapperIdle
    /\ AsmIdle
    /\ GlbIdle
    /\ CadIdle
    /\ LoaderIdle

----------------------------------------------------------------------------
(* src/core/assembly.ts: buildAssemblyTree.  A node map lists its nodes    *)
(* with their keys; childrenIds and children are Undefined or arrays of    *)
(* ids.                                                                    *)

\* nodeMap.nodes[id], as a position in the node list (0 when absent)
NodeOfKey(nodeMap, id) ==
  IF \E k \in 1..Len(nodeMap.nodes) : Str(nodeMap.nodes[k].key) = id
  THEN CHOOSE k \in 1..Len(nodeMap.nodes) : Str(nodeMap.nodes[k].key) = id
  ELSE 0

\* Faulty variant: node.children ?? node.childrenIds ?? []
childIdsChildrenFirst(node) ==
  OrElse(node.children, OrElse(node.childrenIds, Arr(<<>>))).a

\* node.childrenIds ?? node.children ?? []
childIdsOf(node) ==
  OrElse(node.childrenIds, OrElse(node.children, Arr(<<>>))).a

RECURSIVE visit(_, _)
RECURSIVE visitAll(_, _, _)

\* ids.map((id) => visit(id)).filter(Boolean), from position i on
visitAll(nodeMap, ids, i) ==
  IF i > Len(ids) THEN <<>>
  ELSE (IF visit(nodeMap, ids[i]) = Null THEN <<>>
        ELSE <<visit(nodeMap, ids[i])>>)
       \o visitAll(nodeMap, ids, i + 1)

visit(nodeMap, id) ==
  IF NodeOfKey(nodeMap, id) = 0 THEN Null
  ELSE [id |-> nodeMap.nodes[NodeOfKey(nodeMap, id)].id,
        name |-> nodeMap.nodes[NodeOfKey(nodeMap, id)].name,
        children |->
          visitAll(nodeMap,
                   childIdsOf(nodeMap.nodes[NodeOfKey(nodeMap, id)]), 1)]

buildAssemblyTree(nodeMap) == visitAll(nodeMap, nodeMap.roots, 1)

----------------------------------------------------------------------------
(* Inputs of buildAssemblyTree: node maps over the ids root, child and     *)
(* grand, whose child lists may name the id missing; a child list names    *)
(* only ids further down, as in the maps traverseLabel builds.             *)

MaxChildren == 2

RootId == <<114, 111, 111, 116>>
ChildId == <<99, 104, 105, 108, 100>>
GrandId == <<103, 114, 97, 110, 100>>
MissingId == <<109, 105, 115, 115, 105, 110, 103>>

TreeNode(key, name, childrenIds, children) ==
  [key |-> key, id |-> Str(key), name |-> Str(name),
   childrenIds |-> childrenIds, children |-> children]

IdLists(ids, n) == { Arr(s) : s \in SeqsUpTo({ Str(i) : i \in ids }, n) }

RootNodes ==
  { TreeNode(RootId, <<82, 111, 111, 116>>, c, Undefined) :
      c \in IdLists({ChildId, GrandId, MissingId}, MaxChildren) }
  \cup
  { TreeNode(RootId, <<82, 111, 111, 116>>, Undefined, c) :
      c \in IdLists({ChildId, GrandId, MissingId}, MaxChildren) \cup {Undefined} }
  \cup
  { TreeNode(RootId, <<82, 111, 111, 116>>, Arr(<<Str(ChildId)>>),
             Arr(<<Str(GrandId)>>)) }

ChildNodes ==
  { TreeNode(ChildId, <<67, 104, 105, 108, 100>>, Undefined, c) :
      c \in IdLists({GrandId, MissingId}, MaxChildren) }

GrandNodes == { TreeNode(GrandId, <<71>>, Arr(<<>>), Undefined) }

RootLists ==
  { <<Str(RootId)>>, <<Str(MissingId), Str(RootId)>>,
    <<Str(RootId), Str(ChildId)>>, <<>> }

TreeNodeMaps ==
  { [roots |-> r, nodes |-> <<n>> \o c \o g] :
      r \in RootLists, n \in RootNodes,
      c \in { <<>> } \cup { <<x>> : x \in ChildNodes },
      g \in { <<>> } \cup { <<x>> : x \in GrandNodes } }

InitTree ==
  /\ pc = "tree input"
  /\ treeNodeMap \in TreeNodeMaps
  /\ tree = None
  /\ OnlyTree

BuildTree ==
  /\ pc = "tree input"
  /\ tree' = [ok |-> TRUE, tree |-> buildAssemblyTree(treeNodeMap)]
  /\ pc' = "tree"
  /\ UNCHANGED <<treeNodeMap, notTreeVars>>

NextTree == BuildTree

SpecTree == InitTree /\ [][NextTree]_vars

----------------------------------------------------------------------------
(* Properties of buildAssemblyTree (SpecTree) *)

InMap(id) == \E k \in 1..Len(treeNodeMap.nodes) : Str(treeNodeMap.nodes[k].key) = id

NodeOf(id) ==
  treeNodeMap.nodes[CHOOSE k \in 1..Len(treeNodeMap.nodes) :
                      Str(treeNodeMap.nodes[k].key) = id]

\* The child ids a node stores: childrenIds when it has them, else children,
\* else none.
StoredChildIds(id) ==
  IF NodeOf(id).childrenIds # Undefined THEN NodeOf(id).childrenIds.a
  ELSE IF NodeOf(id).children # Undefined THEN NodeOf(id).children.a
  ELSE <<>>

\* The ids of a list that are present in the map, in the order of the list.
Kept(ids) == SelectSeq(ids, InMap)

\* A record is the tree of the node `id`.
RECURSIVE IsTreeOf(_, _)
IsTreeOf(rec, id) ==
  /\ rec.id = NodeOf(id).id
  /\ rec.name = NodeOf(id).name
  /\ Len(rec.children) = Len(Kept(StoredChildIds(id)))
  /\ \A k \in 1..Len(rec.children) :
       IsTreeOf(rec.children[k], Kept(StoredChildIds(id))[k])

\* C22: buildAssemblyTree returns, for each root id present in the node map
\* and in root order, a record {id, name, children} whose children are built
\* the same way from the node's stored child ids in their order (childrenIds
\* or children); every id absent from the map, at root level or below, is
\* left out, and no error is raised.
C22_TreeOfPresentIds ==
  (pc = "tree") =>
    /\ tree.ok
    /\ Len(tree.tree) = Len(Kept(treeNodeMap.roots))
    /\ \A i \in 1..Len(tree.tree) :
         IsTreeOf(tree.tree[i], Kept(treeNodeMap.roots)[i])

\* A missing root before the root, a missing child between two present ones
\* below it.
C22_Witness ==
  /\ pc = "tree"
  /\ treeNodeMap.roots = <<Str(MissingId), Str(RootId)>>
  /\ NodeOf(Str(RootId)).children = Arr(<<Str(MissingId), Str(ChildId)>>)
  /\ InMap(Str(ChildId))
  /\ NodeOf(Str(ChildId)).children = Arr(<<Str(GrandId), Str(MissingId)>>)
  /\ InMap(Str(GrandId))
  /\ Len(tree.tree) = 1
  /\ Len(tree.tree[1].children) = 1
  /\ Len(tree.tree[1].children[1].children) = 1
  /\ tree.tree[1].children[1].children[1].id = Str(GrandId)

----------------------------------------------------------------------------

OnlyCad ==
  StatsIdle
    /\ BoundsIdle
    /\ RetryIdle
    /\ PolicyIdle
    /\ BomIdle
    /\ MapperIdle
    /\ AsmIdle
    /\ TreeIdle
    /\ GlbIdle
    /\ LoaderIdle

----------------------------------------------------------------------------
(* src/browser/conversion.ts: convertCadBufferToGlbWithMetadata.  The      *)
(* metadata is kept as the JS value that is embedded; deflections stay in  *)
(* thousandths.                                                            *)

\* unitNameFromScale for a whole scale: 1 is 'm', every other one 'unknown'
unitNameFromScale(scaleToMeters) ==
  IF scaleToMeters = 1 THEN Str(<<109>>) ELSE Str(<<117, 110, 107, 110, 111, 119, 110>>)

\* readInputUnitScaleToMeters of a kernel without GetLengthUnit
UnknownUnit == [scaleToMeters |-> 1, source |-> Str(<<117, 110, 107, 110, 111, 119, 110>>)]

\* Lines 512-515
unitInfoOf(opts) ==
  IF TypeofNumber(opts.unitScaleToMeters)
  THEN [scaleToMeters |-> opts.unitScaleToMeters.n, source |-> Str(<<111, 118, 101, 114, 114, 105, 100, 101>>)]
  ELSE UnknownUnit

JsStats(s) ==
  Obj(<< KV(<<116, 114, 105, 97, 110, 103, 108, 101, 115>>, Num(s.triangles)),
         KV(<<109, 101, 115, 104, 67, 111, 117, 110, 116>>, Num(s.meshCount)),
         KV(<<110, 111, 100, 101, 67, 111, 117, 110, 116>>, Num(s.nodeCount)),
         KV(<<112, 114, 105, 109, 105, 116, 105, 118, 101, 67, 111, 117, 110, 116>>, Num(s.primitiveCount)),
         KV(<<110, 111, 100, 101, 115, 87, 105, 116, 104, 77, 101, 115, 104, 67, 111, 117, 110, 116>>, Num(s.nodesWithMeshCount)),
         KV(<<112, 114, 105, 109, 105, 116, 105, 118, 101, 115, 87, 105, 116, 104, 80, 111, 115, 105, 116, 105, 111, 110, 67, 111, 117, 110, 116>>, Num(s.primitivesWithPositionCount)) >>)

JsSchedule(u) ==
  Obj(<< KV(<<108, 105, 110, 101, 97, 114, 68, 101, 102, 108, 101, 99, 116, 105, 111, 110>>, Num(u.linearDeflection)),
         KV(<<97, 110, 103, 117, 108, 97, 114, 68, 101, 102, 108, 101, 99, 116, 105, 111, 110>>, Num(u.angularDeflection)),
         KV(<<114, 101, 108, 97, 116, 105, 118, 101>>, Bool(u.relative)),
         KV(<<112, 97, 114, 97, 108, 108, 101, 108>>, u.parallel) >>)

JsCode(code) ==
  CASE code = "mesh/relative-forced-false" -> Str(<<109, 101, 115, 104, 47, 114, 101, 108, 97, 116, 105, 118, 101, 45, 102, 111, 114, 99, 101, 100, 45, 102, 97, 108, 115, 101>>)
    [] code = "mesh/triangle-explosion-retry" ->
         Str(<<109, 101, 115, 104, 47, 116, 114, 105, 97, 110, 103, 108, 101, 45, 101, 120, 112, 108, 111, 115, 105, 111, 110, 45, 114, 101, 116, 114, 121>>)
    [] OTHER -> Str(<<109, 101, 115, 104, 47, 116, 114, 105, 97, 110, 103, 108, 101, 45, 101, 120, 112, 108, 111, 115, 105, 111, 110, 45, 117, 110, 114, 101, 115, 111, 108, 118, 101, 100>>)

JsWarning(w) ==
  IF w.code = "mesh/relative-forced-false"
  THEN Obj(<<KV(<<99, 111, 100, 101>>, JsCode(w.code))>>)
  ELSE Obj(<< KV(<<99, 111, 100, 101>>, JsCode(w.code)),
              KV(<<97, 116, 116, 101, 109, 112, 116>>, Num(w.attempt)),
              KV(<<116, 104, 114, 101, 115, 104, 111, 108, 100, 115>>,
                 Obj(<< KV(<<77, 65, 88, 95, 84, 82, 73, 65, 78, 71, 76, 69, 83>>, Num(w.thresholds.MAX_TRIANGLES)),
                        KV(<<77, 65, 88, 95, 80, 82, 73, 77, 73, 84, 73, 86, 69, 83>>, Num(w.thresholds.MAX_PRIMITIVES)) >>)),
              KV(<<109, 101, 115, 104, 83, 116, 97, 116, 115>>, JsStats(w.meshStats)),
              KV(<<116, 114, 105, 97, 110, 103, 117, 108, 97, 116, 101, 85, 115, 101, 100>>, JsSchedule(w.triangulateUsed)) >>)

RECURSIVE JsTree(_)
JsTree(rec) ==
  Obj(<< KV(<<105, 100>>, rec.id), KV(<<110, 97, 109, 101>>, rec.name),
         KV(<<99, 104, 105, 108, 100, 114, 101, 110>>, Arr([i \in 1..Len(rec.children) |->
                               JsTree(rec.children[i])])) >>)

JsNode(n) ==
  Obj(<< KV(<<105, 100>>, n.id), KV(<<110, 97, 109, 101>>, n.name), KV(<<112, 114, 111, 100, 117, 99, 116, 73, 100>>, n.productId),
         KV(<<112, 97, 114, 101, 110, 116, 73, 100>>, n.parentId), KV(<<99, 104, 105, 108, 100, 114, 101, 110, 73, 100, 115>>, n.childrenIds),
         KV(<<103, 108, 116, 102, 78, 111, 100, 101, 73, 110, 100, 101, 120>>, Num(n.gltfNodeIndex)),
         KV(<<103, 108, 116, 102, 77, 101, 115, 104, 73, 110, 100, 101, 120>>, n.gltfMeshIndex) >>)

JsNodeMap(m) ==
  Obj(<< KV(<<114, 111, 111, 116, 115>>, Arr(m.roots)),
         KV(<<110, 111, 100, 101, 115>>, Obj([i \in 1..Len(m.nodes) |->
                            KV(m.nodes[i].key, JsNode(m.nodes[i]))])) >>)

JsBomItem(item) ==
  Obj(<< KV(<<110, 97, 109, 101>>, item.name), KV(<<113, 117, 97, 110, 116, 105, 116, 121>>, item.quantity),
         KV(<<112, 114, 111, 100, 117, 99, 116, 73, 100>>, item.productId), KV(<<107, 105, 110, 100>>, item.kind) >>)

JsBounds(b) ==
  Obj(<< KV(<<109, 105, 110>>, Arr([i \in 1..3 |-> Num(b.min[i])])),
         KV(<<109, 97, 120>>, Arr([i \in 1..3 |-> Num(b.max[i])])) >>)

\* Lines 541-555: the metadata object
metadataOf(opts, conv, mapped, bomRaw_, boundsMeters) ==
  Obj((IF Truthy(opts.schemaVersion)
       THEN <<KV(<<115, 99, 104, 101, 109, 97, 86, 101, 114, 115, 105, 111, 110>>, opts.schemaVersion)>> ELSE <<>>)
      \o << KV(<<109, 101, 115, 104, 83, 116, 97, 116, 115>>, JsStats(conv.meshStats)),
            KV(<<99, 111, 110, 118, 101, 114, 115, 105, 111, 110, 87, 97, 114, 110, 105, 110, 103, 115>>,
               Arr([i \in 1..Len(conv.conversionWarnings) |->
                      JsWarning(conv.conversionWarnings[i])])),
            KV(<<97, 115, 115, 101, 109, 98, 108, 121, 84, 114, 101, 101>>,
               Arr([i \in 1..Len(buildAssemblyTree(mapped)) |->
                      JsTree(buildAssemblyTree(mapped)[i])])),
            KV(<<110, 111, 100, 101, 77, 97, 112>>, JsNodeMap(mapped)),
            KV(<<98, 111, 109>>,
               Arr([i \in 1..Len(buildBomSummary(bomRaw_, mapped)) |->
                      JsBomItem(buildBomSummary(bomRaw_, mapped)[i])])),
            KV(<<117, 110, 105, 116, 115>>,
               Obj(<< KV(<<105, 110, 112, 117, 116, 76, 101, 110, 103, 116, 104, 85, 110, 105, 116>>,
                         unitNameFromScale(unitInfoOf(opts).scaleToMeters)),
                      KV(<<105, 110, 112, 117, 116, 85, 110, 105, 116, 83, 111, 117, 114, 99, 101>>, unitInfoOf(opts).source),
                      KV(<<111, 117, 116, 112, 117, 116, 76, 101, 110, 103, 116, 104, 85, 110, 105, 116>>, Str(<<109>>)),
                      KV(<<115, 99, 97, 108, 101, 84, 111, 77, 101, 116, 101, 114, 115>>, Num(unitInfoOf(opts).scaleToMeters)) >>)),
            KV(<<98, 111, 117, 110, 100, 115, 77, 101, 116, 101, 114, 115>>, JsBounds(boundsMeters)) >>)

UnsupportedStepContent ==
  Throw("Error", "This STEP file contains no supported solids/assemblies.")

cadResultOf(conv, metadata, patchedGlb) ==
  [ok |-> TRUE, glb |-> conv.glb, patchedGlb |-> patchedGlb,
   meshStats |-> conv.meshStats,
   conversionWarnings |-> conv.conversionWarnings, metadata |-> metadata]

cadPatched(conv, metadata, inj) ==
  IF ~inj.ok THEN inj ELSE cadResultOf(conv, metadata, Bytes(inj.glb))

\* Faulty variant: the metadata is embedded whenever a key is given, the
\* empty string too.
cadReturnAnyKey(opts, conv, metadata) ==
  IF opts.embedMetadataKey # Undefined
  THEN cadPatched(conv, metadata,
         injectAssetExtrasIntoGlb(conv.glb,
           Obj(<<KV(opts.embedMetadataKey.s, metadata)>>)))
  ELSE cadResultOf(conv, metadata, Undefined)

\* Lines 557-564
cadReturn(opts, conv, metadata) ==
  IF Truthy(opts.embedMetadataKey)
  THEN cadPatched(conv, metadata,
         injectAssetExtrasIntoGlb(conv.glb,
           Obj(<<KV(opts.embedMetadataKey.s, metadata)>>)))
  ELSE cadResultOf(conv, metadata, Undefined)

\* Lines 538-555, given the mapped node map and the bounds
cadWithBounds(opts, conv, mapped, bomRaw_, boundsMeters) ==
  IF ~boundsMeters.ok THEN boundsMeters
  ELSE cadReturn(opts, conv,
                 metadataOf(opts, conv, mapped, bomRaw_, boundsMeters))

cadWithMapped(opts, conv, mapped, bomRaw_) ==
  IF ~mapped.ok THEN mapped
  ELSE cadWithBounds(opts, conv, mapped, bomRaw_, computeBoundsMeters(conv.glb))

\* Lines 525-540, given what convertDocumentToGlbWithRetries returned
cadAfterRetries(opts, conv, raw, bomRaw_) ==
  IF ~conv.ok THEN conv
  ELSE IF /\ Truthy(opts.validateMesh)
          /\ \/ conv.meshStats.meshCount = 0
             \/ conv.meshStats.primitivesWithPositionCount = 0
  THEN UnsupportedStepContent
  ELSE cadWithMapped(opts, conv, buildMappedNodeMap(raw, conv.glb), bomRaw_)

----------------------------------------------------------------------------
(* Inputs of convertCadBufferToGlbWithMetadata: the options, the node map  *)
(* and the BOM of the kernel.  The GLBs the kernel writes are those of     *)
(* KernelOutputs.                                                          *)

CadBaseOptions ==
  [embedMetadataKey |-> Undefined, schemaVersion |-> Undefined,
   validateNodeMap |-> Undefined, validateMesh |-> Undefined,
   unitScaleToMeters |-> Num(1), triangulate |-> Undefined,
   attempts |-> Num(2)]

EmbedKeys == { Undefined, Str(<<>>), Str(<<116, 101, 115, 116, 75, 101, 121>>), Str(<<101, 120, 116, 114, 97, 115>>) }

CadOptions ==
  { [CadBaseOptions EXCEPT !.embedMetadataKey = key, !.schemaVersion = version] :
      key \in EmbedKeys, version \in {Undefined, Str(<<116, 101, 115, 116, 45, 115, 99, 104, 101, 109, 97>>)} }
  \cup
  { [CadBaseOptions EXCEPT !.embedMetadataKey = key, !.validateNodeMap = vn,
                           !.validateMesh = vm] :
      key \in {Undefined, Str(<<116, 101, 115, 116, 75, 101, 121>>)},
      vn \in {Undefined, Bool(TRUE)}, vm \in {Undefined, Bool(TRUE)} }
  \cup
  { [CadBaseOptions EXCEPT !.embedMetadataKey = Str(<<116, 101, 115, 116, 75, 101, 121>>),
                           !.unitScaleToMeters = Undefined,
                           !.triangulate = tr, !.attempts = Undefined] :
      tr \in TriangulateOptions }

\* createNodeMap: the node 'n1' of the minimal GLB ('0:1'), a node the GLB
\* does not name ('0:9'), or an empty map
CadNodeMaps ==
  { RawNodeMap(<<Str(<<48, 58, 49>>)>>), RawNodeMap(<<Str(<<48, 58, 57>>)>>),
    [roots |-> <<>>, nodes |-> <<>>] }

CadBoms ==
  { [items |-> Arr(<<>>)],
    [items |-> Arr(<<[productId |-> P1, productName |-> NameOnly,
                      quantity |-> Num(2), kind |-> Str(<<112, 97, 114, 116>>)]>>)] }

InitCad ==
  /\ pc = "cad input"
  /\ cadOptions \in CadOptions
  /\ cadNodeMap \in CadNodeMaps
  /\ cadBom \in CadBoms
  /\ cadResult = None
  /\ OnlyCad

\* Lines 481-523: readBuffer, createNodeMap, the node map check, and the
\* call of convertDocumentToGlbWithRetries with the options passed on.
ReadCad ==
  /\ pc = "cad input"
  /\ IF /\ Truthy(cadOptions.validateNodeMap)
        /\ (Len(cadNodeMap.roots) = 0 \/ Len(cadNodeMap.nodes) = 0)
     THEN /\ cadResult' = UnsupportedStepContent
          /\ pc' = "cad done"
          /\ UNCHANGED options
     ELSE /\ options' = [triangulate |-> cadOptions.triangulate,
                         attempts |-> cadOptions.attempts,
                         triangleExplosionThresholds |-> Undefined]
          /\ pc' = "retry input"
          /\ UNCHANGED cadResult
  /\ UNCHANGED <<cadOptions, cadNodeMap, cadBom, attempt, triangulateUsed,
                 kernelCalls, outGlb, meshStats, conversionWarnings, conversion,
                 glbVars, statsVars, boundsVars, policyVars, mapperVars,
                 bomVars, asmVars, treeVars, loaderVars>>

\* Lines 525-565: from the result of convertDocumentToGlbWithRetries on
AssembleCad ==
  /\ pc = "done"
  /\ cadOptions # Null
  /\ cadResult' = cadAfterRetries(cadOptions, conversion, cadNodeMap, cadBom)
  /\ pc' = "cad done"
  /\ UNCHANGED <<cadOptions, cadNodeMap, cadBom, notCadVars>>

NextCad ==
  ReadCad \/ Enter \/ Triangulate \/ WriteBuffer \/ Return \/ AssembleCad

SpecCad == InitCad /\ [][NextCad]_vars

----------------------------------------------------------------------------
(* Properties of convertCadBufferToGlbWithMetadata (SpecCad) *)

KeyGiven ==
  TypeofString(cadOptions.embedMetadataKey) /\ cadOptions.embedMetadataKey.s # <<>>

\* The document of the first chunk of a GLB.
DocumentOf(g) == JsonParse(trimEnd(decodeUtf8(parseGlb(g).chunks[1].data))).v

\* What JSON keeps of a value.
AsJson(value) == JsonParse(JsonStringify(value).s).v

\* The document is the other one but for its asset.extras.
SameButExtras(patched, original) ==
  /\ Len(patched.o) = Len(original.o)
  /\ \A i \in 1..Len(original.o) :
       /\ patched.o[i].k = original.o[i].k
       /\ original.o[i].k # K_asset => patched.o[i].v = original.o[i].v
  /\ \A i \in 1..Len(GetProp(original, K_asset).o) :
       GetProp(GetProp(patched, K_asset), GetProp(original, K_asset).o[i].k)
         = GetProp(original, K_asset).o[i].v

\* C23: convertCadBufferToGlbWithMetadata returns a patchedGlb if and only if
\* embedMetadataKey is a non-empty string; the returned glb is the GLB of the
\* last triangulation attempt, and patchedGlb is that GLB with the metadata
\* stored under asset.extras[embedMetadataKey] and nothing else changed.
C23_PatchedIffKey ==
  (pc = "cad done" /\ cadResult.ok) =>
    /\ cadResult.patchedGlb # Undefined <=> KeyGiven
    /\ cadResult.glb = kernelCalls[Len(kernelCalls)].result.glb
    /\ KeyGiven =>
         /\ parseGlb(cadResult.patchedGlb.bytes).ok
         /\ Len(parseGlb(cadResult.patchedGlb.bytes).chunks) = 1
         /\ SameButExtras(DocumentOf(cadResult.patchedGlb.bytes),
                          DocumentOf(cadResult.glb))
         /\ GetProp(GetProp(DocumentOf(cadResult.patchedGlb.bytes), K_asset),
                    K_extras)
              = Obj(<<KV(cadOptions.embedMetadataKey.s,
                         AsJson(cadResult.metadata))>>)

\* The run of the unit test: key 'testKey', a schema version, one node.
C23_Witness ==
  /\ pc = "cad done"
  /\ cadResult.ok
  /\ cadOptions.embedMetadataKey = Str(<<116, 101, 115, 116, 75, 101, 121>>)
  /\ cadOptions.schemaVersion = Str(<<116, 101, 115, 116, 45, 115, 99, 104, 101, 109, 97>>)
  /\ Len(cadNodeMap.nodes) = 1
  /\ cadResult.patchedGlb # Undefined
  /\ cadResult.patchedGlb.bytes # cadResult.glb
  /\ GetProp(cadResult.metadata, <<115, 99, 104, 101, 109, 97, 86, 101, 114, 115, 105, 111, 110>>) = Str(<<116, 101, 115, 116, 45, 115, 99, 104, 101, 109, 97>>)

\* A run without a key returns no patchedGlb.
C23_WitnessNoKey ==
  /\ pc = "cad done"
  /\ cadResult.ok
  /\ cadOptions.embedMetadataKey = Str(<<>>)
  /\ cadResult.patchedGlb = Undefined

----------------------------------------------------------------------------

OnlyLoader ==
  StatsIdle
    /\ BoundsIdle
    /\ RetryIdle
    /\ PolicyIdle
    /\ BomIdle
    /\ MapperIdle
    /\ AsmIdle
    /\ TreeIdle
    /\ CadIdle
    /\ GlbIdle

----------------------------------------------------------------------------
(* src/core/writer.ts: loadOpenCascade and getOpenCascade.  A promise is   *)
(* the number of the loadOpenCascade call that made it; each call of an    *)
(* async function runs up to its first await in one step.                  *)

MaxCalls == 3

\* Line 61
shouldCache(opts) == opts.cache # Bool(FALSE)

\* Lines 62-68: the load whose promise the call returns
loadOfCall(opts, cached, newLoad) ==
  IF ~shouldCache(opts) THEN newLoad
  ELSE IF cached = 0 THEN newLoad ELSE cached

\* Faulty variant: every call that starts a load leaves it in the cache.
cacheFilledByAnyCall(opts, cached, newLoad) ==
  IF cached = 0 THEN newLoad ELSE cached

\* Lines 65-67: cachedPromise after the call
cacheAfterCall(opts, cached, newLoad) ==
  IF ~shouldCache(opts) THEN cached
  ELSE IF cached = 0 THEN newLoad ELSE cached

\* Lines 54-55: loadOpenCascade up to the await of the import
startedLoad == [stage |-> "importing", inits |-> 0, instance |-> 0]

LoaderOptions ==
  { [cache |-> Undefined], [cache |-> Bool(TRUE)], [cache |-> Bool(FALSE)] }

\* resolveInitOpenCascade finds an init function or throws
ModuleKinds == { "init", "no init" }

InitLoader ==
  /\ pc = "loader"
  /\ ocModule \in ModuleKinds
  /\ cachedPromise = 0
  /\ ocLoads = <<>>
  /\ ocCalls = <<>>
  /\ initCalls = 0
  /\ OnlyLoader

\* getOpenCascade(options), lines 60-69
GetOpenCascade ==
  /\ pc = "loader"
  /\ Len(ocCalls) < MaxCalls
  /\ \E opts \in LoaderOptions :
       /\ ocCalls' =
            Append(ocCalls,
                   [options |-> opts,
                    load |-> loadOfCall(opts, cachedPromise, Len(ocLoads) + 1),
                    beforeResolved |->
                      /\ loadOfCall(opts, cachedPromise, Len(ocLoads) + 1)
                           <= Len(ocLoads)
                      /\ ocLoads[cachedPromise].stage
                           \in {"importing", "initializing"},
                    settled |-> FALSE, result |-> None])
       /\ ocLoads' =
            IF loadOfCall(opts, cachedPromise, Len(ocLoads) + 1) = Len(ocLoads) + 1
            THEN Append(ocLoads, startedLoad) ELSE ocLoads
       /\ cachedPromise' = cacheAfterCall(opts, cachedPromise, Len(ocLoads) + 1)
  /\ UNCHANGED <<pc, ocModule, initCalls, notLoaderVars>>

\* loadOpenCascade after the import: lines 56-57
ImportResolves ==
  /\ pc = "loader"
  /\ \E l \in 1..Len(ocLoads) :
       /\ ocLoads[l].stage = "importing"
       /\ IF ocModule = "init"
          THEN /\ initCalls' = initCalls + 1
               /\ ocLoads' = [ocLoads EXCEPT ![l] =
                                [stage |-> "initializing", inits |-> 1,
                                 instance |-> initCalls + 1]]
          ELSE /\ initCalls' = initCalls
               /\ ocLoads' = [ocLoads EXCEPT ![l].stage = "rejected"]
  /\ UNCHANGED <<pc, ocModule, cachedPromise, ocCalls, notLoaderVars>>

\* The promise of initOpenCascade() settles: an instance, or a rejection.
InitSettles ==
  /\ pc = "loader"
  /\ \E l \in 1..Len(ocLoads) :
       /\ ocLoads[l].stage = "initializing"
       /\ \E outcome \in {"resolved", "rejected"} :
            ocLoads' = [ocLoads EXCEPT ![l].stage = outcome]
  /\ UNCHANGED <<pc, ocModule, cachedPromise, ocCalls, initCalls, notLoaderVars>>

loadResult(load) ==
  IF load.stage = "resolved" THEN [ok |-> TRUE, instance |-> load.instance]
  ELSE IF load.inits = 0
  THEN Throw("Error", "opencascade.js did not export an init function.")
  ELSE Throw("Error", "init rejected")

\* The promise getOpenCascade returned settles as the load it follows.
CallSettles ==
  /\ pc = "loader"
  /\ \E c \in 1..Len(ocCalls) :
       /\ ~ocCalls[c].settled
       /\ ocLoads[ocCalls[c].load].stage \in {"resolved", "rejected"}
       /\ ocCalls' = [ocCalls EXCEPT ![c].settled = TRUE,
                        ![c].result = loadResult(ocLoads[ocCalls[c].load])]
  /\ UNCHANGED <<pc, ocModule, cachedPromise, ocLoads, initCalls, notLoaderVars>>

NextLoader == GetOpenCascade \/ ImportResolves \/ InitSettles \/ CallSettles

SpecLoader == InitLoader /\ [][NextLoader]_vars

----------------------------------------------------------------------------
(* Properties of getOpenCascade (SpecLoader) *)

CachingCalls == { c \in 1..Len(ocCalls) : ocCalls[c].options.cache # Bool(FALSE) }

UncachedCalls == { c \in 1..Len(ocCalls) : ocCalls[c].options.cache = Bool(FALSE) }

RECURSIVE InitsOfLoads(_)
InitsOfLoads(loads) ==
  IF loads = {} THEN 0
  ELSE ocLoads[CHOOSE l \in loads : TRUE].inits
       + InitsOfLoads(loads \ {CHOOSE l \in loads : TRUE})

\* C24: however getOpenCascade calls interleave, the caching calls share one
\* load, init is invoked at most once for them and they all get its result;
\* a call with cache: false has a load of its own, for which init is invoked
\* once (once its import has resolved), and leaves cachedPromise alone.
C24_OneLoadForCachingCalls ==
  /\ \A c, d \in CachingCalls :
       /\ ocCalls[c].load = ocCalls[d].load
       /\ ocCalls[c].load = cachedPromise
       /\ (ocCalls[c].settled /\ ocCalls[d].settled)
            => ocCalls[c].result = ocCalls[d].result
  /\ InitsOfLoads({ ocCalls[c].load : c \in CachingCalls }) <= 1
  /\ \A c \in UncachedCalls :
       /\ \A d \in 1..Len(ocCalls) : d # c => ocCalls[d].load # ocCalls[c].load
       /\ cachedPromise # ocCalls[c].load
       /\ ocLoads[ocCalls[c].load].inits
            = IF ocModule = "init" /\ ocLoads[ocCalls[c].load].stage # "importing"
              THEN 1 ELSE 0
  /\ initCalls = InitsOfLoads(1..Len(ocLoads))
  /\ (CachingCalls = {}) => cachedPromise = 0

\* Two caching calls, the second made before the load had resolved, got the
\* same instance; a call with cache: false in between got another one.
C24_Witness ==
  /\ Len(ocCalls) = 3
  /\ \A c \in 1..3 : ocCalls[c].settled /\ ocCalls[c].result.ok
  /\ ocCalls[1].options.cache = Undefined
  /\ ocCalls[2].options.cache = Bool(FALSE)
  /\ ocCalls[3].options.cache = Undefined
  /\ ocCalls[3].beforeResolved
  /\ ocCalls[1].result = ocCalls[3].result
  /\ ocCalls[2].result # ocCalls[1].result
  /\ initCalls = 2

====
